---- MODULE Spec2Model ----
(***************************************************************************)
(* A model of the ingestion-and-classification pipeline of                 *)
(* product-sentiment-analysis: the ingestion engine (app/services/         *)
(* ingestion.py) over the SQLAlchemy unit of work (app/db/session.py), the *)
(* classification orchestrator (app/services/classification.py) with the   *)
(* sentiment service (app/services/sentiment.py) and the vector index      *)
(* gateway (app/services/weaviate_client.py).                              *)
(*                                                                         *)
(* Nullable columns and Optional values are sequences: <<>> is None/NULL   *)
(* and <<v>> is the value v.  Text is a sequence of one-character strings. *)
(***************************************************************************)
EXTENDS Integers, Sequences, FiniteSets, Bags, TLC

VARIABLES
    store,      \* the committed relational store: [sources, contents, comments]
    run,        \* per ingestion task: the position and locals of run_once
    hist,       \* per ingestion task: what has happened in its current run
    nruns,      \* number of run_once invocations so far
    ndeliv,     \* number of items/comments the platforms have delivered so far
    nfail,      \* number of platform API calls that have raised so far
    backoffLib, \* TRUE when the backoff package is importable (app/utils/backoff.py)
    vaderLib,   \* TRUE when vaderSentiment is importable (app/services/sentiment.py)
    wv,         \* the WeaviateService instance and the vector store behind it
    gw,         \* the outcome of the last direct call of the gateway
    cl,         \* per classification task: the position and locals of run_pending
    ncls,       \* number of run_pending invocations so far
    fbTexts,    \* SentimentService.fallback: the batch it is called with
    fbScores,   \* the analyzer's compound score of each text of the batch
    fbResults,  \* what fallback returned (Null before the call)
    dc,         \* the position and locals of discover_reddit
    call        \* a call of a function without state: name, argument, outcome

ivars == <<store, run, hist, nruns, ndeliv, nfail, backoffLib>>
cvars == <<vaderLib, wv, gw, cl, ncls>>
fbvars == <<fbTexts, fbScores, fbResults>>
fvars == <<fbvars, dc, call>>
vars == <<ivars, cvars, fvars>>

---------------------------------------------------------------------------
(* Bounds of the model *)

MaxRuns == 2          \* run_once invocations
MaxDeliveries == 4    \* items/comments the platforms deliver in all
MaxFailures == 3      \* platform API calls that raise, in all
MaxObjects == 3       \* objects inserted into the vector store
NumComments == 2      \* comments in the store when classification starts
MaxClsRuns == 2       \* run_pending invocations
MaxBatch == 2         \* texts in a batch given to the fallback scorer
MaxNames == 2         \* subreddit names suggest_subreddits returns
MaxQueries == 2       \* queries suggest_reddit_queries returns
ManySubs == 22        \* subreddits the largest search listing has posts of
MaxTokens == 3        \* pieces a text given to normalize_text is made of
MaxProducts == 2      \* products given to generate_aliases
MaxPermuted == 3      \* largest set of names whose every iteration order is tried
MaxEntries == 7       \* entries of a list given to parse_summary_payload

---------------------------------------------------------------------------
(* Values *)

Null == <<>>
Some(v) == <<v>>

Tasks == {1, 2}
Platforms == {"reddit", "youtube"}
Products == {"p1", "p2"}
ProductLists == {<<"p1", "p2">>}
ItemIds == {"i1", "i2"}
CommentIds == {"c1"}

\* the external world: the channel an item was posted in, the item a comment is under
ChannelOf(i) == IF i = "i1" THEN "ch1" ELSE "ch2"
ItemOfComment(c) == "i1"

\* the author the platform reports for an item or a comment, none for a
\* deleted account or a snippet without the field
AuthorOfItem(i) == IF i = "i1" THEN Null ELSE Some("u1")
AuthorOfComment(c) == IF c = "c1" THEN Null ELSE Some("u2")

\* raw comment bodies the platforms deliver (a comment may be edited between deliveries)
RawBodies == { <<"G", "o", "o", "d", " ", " ", "b", "u", "y">>,
               <<"B", "a", "d">> }

---------------------------------------------------------------------------
(* app/utils/text.py *)

Whitespace == {" ", "\t", "\n"}

LowerChar(ch) ==
    CASE ch = "A" -> "a" [] ch = "B" -> "b" [] ch = "G" -> "g" [] ch = "H" -> "h"
      [] ch = "L" -> "l" [] ch = "T" -> "t" [] ch = "P" -> "p" [] ch = "S" -> "s"
      [] ch = "X" -> "x" [] ch = "I" -> "i"
      [] OTHER -> ch

Lower(text) == [k \in 1..Len(text) |-> LowerChar(text[k])]

\* str.strip(): drop leading and trailing whitespace
RECURSIVE LStrip(_)
LStrip(text) ==
    IF text # <<>> /\ Head(text) \in Whitespace THEN LStrip(Tail(text)) ELSE text

RECURSIVE RStrip(_)
RStrip(text) ==
    IF text # <<>> /\ text[Len(text)] \in Whitespace
    THEN RStrip(SubSeq(text, 1, Len(text) - 1)) ELSE text

Strip(text) == RStrip(LStrip(text))

StartsWithAt(text, k, pat) ==
    /\ k + Len(pat) - 1 <= Len(text)
    /\ \A j \in 1..Len(pat) : text[k + j - 1] = pat[j]

\* index of the last character of the maximal run of non-whitespace starting at k
RECURSIVE NonSpaceEnd(_, _)
NonSpaceEnd(text, k) ==
    IF k + 1 <= Len(text) /\ text[k + 1] \notin Whitespace
    THEN NonSpaceEnd(text, k + 1) ELSE k

\* URL_RE = https?://\S+ : the index of the last character of the match that
\* starts at k, or 0 when there is none
UrlMatchEnd(text, k) ==
    IF ~StartsWithAt(text, k, <<"h", "t", "t", "p">>) THEN 0
    ELSE LET j == IF k + 4 <= Len(text) /\ text[k + 4] = "s" THEN k + 5 ELSE k + 4
         IN  IF /\ StartsWithAt(text, j, <<":", "/", "/">>)
                /\ j + 3 <= Len(text)
                /\ text[j + 3] \notin Whitespace
             THEN NonSpaceEnd(text, j + 3)
             ELSE 0

\* URL_RE.sub("", text), scanning from position k
RECURSIVE UrlSubFrom(_, _)
UrlSubFrom(text, k) ==
    IF k > Len(text) THEN <<>>
    ELSE LET e == UrlMatchEnd(text, k)
         IN  IF e > 0 THEN UrlSubFrom(text, e + 1)
             ELSE <<text[k]>> \o UrlSubFrom(text, k + 1)

UrlSub(text) == UrlSubFrom(text, 1)

\* WHITESPACE_RE.sub(" ", text): every maximal run of whitespace becomes one space
RECURSIVE CollapseFrom(_, _)
CollapseFrom(text, k) ==
    IF k > Len(text) THEN <<>>
    ELSE IF text[k] \in Whitespace
         THEN IF k > 1 /\ text[k - 1] \in Whitespace
              THEN CollapseFrom(text, k + 1)
              ELSE <<" ">> \o CollapseFrom(text, k + 1)
         ELSE <<text[k]>> \o CollapseFrom(text, k + 1)

Collapse(text) == CollapseFrom(text, 1)

normalize_text(text) == Lower(Collapse(UrlSub(Strip(text))))

---------------------------------------------------------------------------
(* app/db/models.py: the three tables and their unique constraints *)

SourceChannel(platform, channel_id) ==
    [platform |-> platform, channel_id |-> channel_id]

ContentItem(platform, item_id, product, author, source) ==
    [platform |-> platform, item_id |-> item_id, product |-> product,
     author |-> author, source |-> source]

Comment(platform, comment_id, product, author, body, content) ==
    [platform |-> platform, comment_id |-> comment_id, product |-> product,
     author |-> author, body |-> body, content |-> content,
     sentiment |-> Null, sentiment_confidence |-> Null, aspects |-> Null,
     weaviate_uuid |-> Null, processed |-> FALSE]

uq_platform_channel(row) == <<row.platform, row.channel_id>>
uq_platform_item(row) == <<row.platform, row.item_id>>
uq_platform_comment(row) == <<row.platform, row.comment_id>>

SourceKeys(rows) == {uq_platform_channel(x) : x \in rows}
ItemKeys(rows) == {uq_platform_item(x) : x \in rows}
CommentKeys(rows) == {uq_platform_comment(x) : x \in rows}

EmptyTables == [sources |-> {}, contents |-> {}, comments |-> {}]

SeqRange(s) == {s[k] : k \in 1..Len(s)}

---------------------------------------------------------------------------
(* app/db/session.py: SessionLocal (autocommit=False, autoflush=False) and  *)
(* get_session.  A session holds the objects added and not yet flushed      *)
(* (pending), the rows its transaction has inserted (fl) and the loaded     *)
(* rows it has modified (upd).  active is FALSE after a failed flush: the   *)
(* session then raises PendingRollbackError until rollback() is called.     *)

SessionLocal == [active |-> TRUE, pending |-> <<>>, fl |-> EmptyTables, upd |-> EmptyTables]

\* what a SELECT of the session returns: committed rows (READ COMMITTED), the
\* rows of its own transaction, and its own modified objects; never the
\* pending objects, because autoflush is off
View(sess) ==
    [sources  |-> store.sources \cup sess.fl.sources,
     contents |-> {x \in store.contents :
                      uq_platform_item(x) \notin ItemKeys(sess.upd.contents)}
                  \cup sess.upd.contents \cup sess.fl.contents,
     comments |-> {x \in store.comments :
                      uq_platform_comment(x) \notin CommentKeys(sess.upd.comments)}
                  \cup sess.upd.comments \cup sess.fl.comments]

\* session.commit() of a flushed session: inserts become visible, updates
\* replace the rows they were loaded from
CommitTables(st, sess) ==
    [sources  |-> st.sources \cup sess.fl.sources,
     contents |-> {x \in st.contents :
                      uq_platform_item(x) \notin ItemKeys(sess.upd.contents)}
                  \cup sess.upd.contents \cup sess.fl.contents,
     comments |-> {x \in st.comments :
                      uq_platform_comment(x) \notin CommentKeys(sess.upd.comments)}
                  \cup sess.upd.comments \cup sess.fl.comments]

\* a context manager that commits however the block is left
get_session_always_commits(st, sess, clean) == CommitTables(st, sess)

\* get_session when its with-block is left: what the store holds afterwards.
\* clean is TRUE when the body has returned and session.commit() has succeeded
\* (the store then takes the session's rows), FALSE when the body or the
\* commit has raised (session.rollback(): the store keeps what it had).  In
\* both cases session.close() follows and the exception, if any, is re-raised.
get_session(st, sess, clean) ==
    IF clean THEN CommitTables(st, sess) ELSE st

\* the INSERTs of a flush: the rows just added (want) and every pending comment
FlushSources(rc) == rc.want.sources
FlushContents(rc) == rc.want.contents
FlushComments(rc) == SeqRange(rc.sess.pending)

\* an INSERT waits while another open transaction holds the same unique key
\* (the flush is disabled until that transaction ends; the database breaking a
\* cycle of such waits by aborting one transaction is outside this model)
LockWait(r) ==
    \E o \in Tasks \ {r} :
        \/ SourceKeys(FlushSources(run[r])) \cap SourceKeys(run[o].sess.fl.sources) # {}
        \/ ItemKeys(FlushContents(run[r])) \cap ItemKeys(run[o].sess.fl.contents) # {}
        \/ CommentKeys(FlushComments(run[r])) \cap CommentKeys(run[o].sess.fl.comments) # {}

\* the unique constraints reject the flush: a key that is already committed,
\* already inserted by this transaction, or twice among the rows being flushed
CommittedConflict(rc) ==
    \/ SourceKeys(FlushSources(rc)) \cap SourceKeys(store.sources) # {}
    \/ ItemKeys(FlushContents(rc)) \cap ItemKeys(store.contents) # {}
    \/ CommentKeys(FlushComments(rc)) \cap CommentKeys(store.comments) # {}

OwnConflict(rc) ==
    \/ SourceKeys(FlushSources(rc)) \cap SourceKeys(rc.sess.fl.sources) # {}
    \/ ItemKeys(FlushContents(rc)) \cap ItemKeys(rc.sess.fl.contents) # {}
    \/ CommentKeys(FlushComments(rc)) \cap CommentKeys(rc.sess.fl.comments) # {}
    \/ \E j, k \in 1..Len(rc.sess.pending) :
          j # k /\ uq_platform_comment(rc.sess.pending[j])
                     = uq_platform_comment(rc.sess.pending[k])

IntegrityError(rc) == CommittedConflict(rc) \/ OwnConflict(rc)

\* session.flush() that succeeds
Flushed(rc) ==
    [rc.sess EXCEPT !.pending = <<>>,
                    !.fl = [sources  |-> @.sources \cup FlushSources(rc),
                            contents |-> @.contents \cup FlushContents(rc),
                            comments |-> @.comments \cup FlushComments(rc)]]

\* session.flush() that raised: the transaction is rolled back, the session is
\* left inactive
FlushFailed == [SessionLocal EXCEPT !.active = FALSE]

---------------------------------------------------------------------------
(* app/utils/backoff.py and the decorators of app/services/ingestion.py *)

\* max_tries=3 of @backoff.on_exception
max_tries == 3

\* on_exception is backoff's when the package is importable, and the identity
\* decorator (one attempt, no retry) when it is not
\* a decorator that allows one attempt more
Attempts_one_more == IF backoffLib THEN max_tries + 1 ELSE 1

Attempts == IF backoffLib THEN max_tries ELSE 1

---------------------------------------------------------------------------
(* app/services/ingestion.py *)

NoWant == [sources |-> {}, contents |-> {}, after |-> "none", item |-> Null]

IdleRun ==
    [pc |-> "idle", phase |-> "reddit", products |-> <<>>, idx |-> 0, tries |-> 0,
     chans |-> {}, cur |-> Null, want |-> NoWant, sess |-> SessionLocal]

NoHist ==
    [dup |-> FALSE, kept |-> FALSE, extFail |-> FALSE, raceLost |-> FALSE,
     exhausted |-> {}, visited |-> {}, added |-> {}, lost |-> {}, met |-> FALSE,
     other |-> FALSE]

Product(rc) == rc.products[rc.idx]

\* an exception leaves _ingest_<platform>_product: backoff calls it again in the
\* same session until the attempts are used up; then the exception leaves the
\* product loop and the with-block of _ingest_<platform>, where get_session rolls
\* back, closes the session and re-raises, and so leaves run_once
OnException(rc) ==
    IF rc.tries < Attempts
    THEN [rc EXCEPT !.pc = "start", !.want = NoWant, !.cur = Null]
    ELSE [rc EXCEPT !.pc = "failed", !.want = NoWant, !.cur = Null,
                    !.chans = {}, !.sess = SessionLocal]

\* the author= argument of the rows built by _get_or_create_content and
\* _upsert_comment (Reddit: the name, or "unknown" without an author) and by
\* _get_or_create_youtube_content and _upsert_youtube_comment (the snippet's
\* field, None when it is missing)
AuthorColumn(platform, author) ==
    IF platform = "reddit"
    THEN IF author # Null THEN author ELSE Some("unknown")
    ELSE author

\* the store after such an exception: unchanged while backoff retries, and what
\* get_session leaves when the exception passes through the with-block
StoreOnException(rc) ==
    IF rc.tries < Attempts THEN store ELSE get_session(store, rc.sess, FALSE)

\* run_once(products): _ingest_reddit opens its session
RunOnce(r, ps) ==
    /\ run[r].pc \in {"idle", "done", "failed"}
    /\ nruns < MaxRuns
    /\ nruns' = nruns + 1
    /\ run' = [run EXCEPT ![r] = [IdleRun EXCEPT !.pc = "start", !.products = ps,
                                                 !.idx = 1]]
    /\ hist' = [hist EXCEPT ![r] = NoHist]
    /\ UNCHANGED <<store, ndeliv, nfail, backoffLib, cvars, fvars>>

\* one call of _ingest_reddit_product / _ingest_youtube_product begins: it
\* selects the platform's SourceChannel rows
BeginAttempt(r) ==
    LET rc == [run[r] EXCEPT !.tries = @ + 1]
    IN  /\ run[r].pc = "start"
        /\ run' = [run EXCEPT ![r] =
                     IF ~rc.sess.active
                     THEN OnException(rc)
                     ELSE [rc EXCEPT !.pc = "fetch", !.cur = Null,
                                     !.chans = {s.channel_id :
                                                  s \in {x \in View(rc.sess).sources :
                                                           x.platform = rc.phase}}]]
        /\ store' = IF ~rc.sess.active THEN StoreOnException(rc) ELSE store
        /\ hist' = [hist EXCEPT ![r].visited = @ \cup {<<rc.phase, Product(rc)>>},
                                ![r].added = {},
                                ![r].lost = IF run[r].tries = 0 THEN {} ELSE @]
        /\ UNCHANGED <<nruns, ndeliv, nfail, backoffLib, cvars, fvars>>

\* a variant of the resolve-or-create that refreshes the product of the row it
\* finds (an upsert that overwrites instead of first-writer-wins)
GetOrCreateContent_overwrites(rc, i) ==
    LET v == View(rc.sess)
        existing == {x \in v.contents : uq_platform_item(x) = <<rc.phase, i>>}
        source == {x \in v.sources : uq_platform_channel(x) = <<rc.phase, ChannelOf(i)>>}
    IN  IF existing # {}
        THEN [rc EXCEPT !.cur = Some(i),
                        !.sess.upd.contents =
                            {x \in @ : uq_platform_item(x) # <<rc.phase, i>>}
                            \cup {[x EXCEPT !.product = Product(rc)] :
                                     x \in existing \ rc.sess.fl.contents},
                        !.sess.fl.contents =
                            {IF uq_platform_item(x) = <<rc.phase, i>>
                             THEN [x EXCEPT !.product = Product(rc)] ELSE x : x \in @}]
        ELSE [rc EXCEPT !.pc = "flushing",
                        !.want = [sources |-> IF source # {} THEN {}
                                              ELSE {SourceChannel(rc.phase, ChannelOf(i))},
                                  contents |-> {ContentItem(rc.phase, i, Product(rc),
                                                            AuthorColumn(rc.phase, AuthorOfItem(i)),
                                                            ChannelOf(i))},
                                  after |-> "item", item |-> Some(i)]]

\* _get_or_create_content / _get_or_create_youtube_content with
\* _get_or_create_source, up to the flush: the existing row is returned, or the
\* new ContentItem (and the SourceChannel, when it is new) is added
GetOrCreateContent(rc, i) ==
    LET v == View(rc.sess)
        existing == {x \in v.contents : uq_platform_item(x) = <<rc.phase, i>>}
        source == {x \in v.sources : uq_platform_channel(x) = <<rc.phase, ChannelOf(i)>>}
    IN  IF existing # {}
        THEN [rc EXCEPT !.cur = Some(i)]
        ELSE [rc EXCEPT !.pc = "flushing",
                        !.want = [sources |-> IF source # {} THEN {}
                                              ELSE {SourceChannel(rc.phase, ChannelOf(i))},
                                  contents |-> {ContentItem(rc.phase, i, Product(rc),
                                                            AuthorColumn(rc.phase, AuthorOfItem(i)),
                                                            ChannelOf(i))},
                                  after |-> "item", item |-> Some(i)]]

\* the search returns item i.  Reddit searches the known subreddits (or "all");
\* YouTube searches everywhere and skips a video of an unknown channel
DeliverItem(r, i) ==
    /\ run[r].pc = "fetch"
    /\ ndeliv < MaxDeliveries
    /\ run[r].phase = "reddit" => (run[r].chans = {} \/ ChannelOf(i) \in run[r].chans)
    /\ run' = [run EXCEPT ![r] =
                 IF /\ run[r].phase = "youtube"
                    /\ run[r].chans # {}
                    /\ ChannelOf(i) \notin run[r].chans
                 THEN run[r]
                 ELSE GetOrCreateContent(run[r], i)]
    /\ ndeliv' = ndeliv + 1
    /\ hist' = [hist EXCEPT
                  ![r].added = IF run'[r].pc = "flushing" THEN @ \cup {i} ELSE @,
                  ![r].met = @ \/ (run'[r] # run[r] /\ i \in hist[r].lost)]
    /\ UNCHANGED <<store, nruns, nfail, backoffLib, cvars, fvars>>

\* videos().list returns no items for the video: it is skipped
SkipVideo(r) ==
    /\ run[r].pc = "fetch"
    /\ run[r].phase = "youtube"
    /\ ndeliv < MaxDeliveries
    /\ ndeliv' = ndeliv + 1
    /\ UNCHANGED <<store, run, hist, nruns, nfail, backoffLib, cvars, fvars>>

\* _upsert_comment / _upsert_youtube_comment
UpsertComment(rc, c, raw) ==
    LET existing == {x \in View(rc.sess).comments :
                        uq_platform_comment(x) = <<rc.phase, c>>}
    IN  IF existing # {}
        THEN rc
        ELSE [rc EXCEPT !.sess.pending =
                            Append(@, Comment(rc.phase, c, Product(rc),
                                              AuthorColumn(rc.phase, AuthorOfComment(c)),
                                              normalize_text(raw), rc.cur[1]))]

\* the comment tree (or a comment page) of the current item delivers comment c
DeliverComment(r, c, raw) ==
    /\ run[r].pc = "fetch"
    /\ ndeliv < MaxDeliveries
    /\ run[r].cur = Some(ItemOfComment(c))
    /\ run' = [run EXCEPT ![r] = UpsertComment(run[r], c, raw)]
    /\ ndeliv' = ndeliv + 1
    /\ hist' = [hist EXCEPT
                  ![r].dup = \/ @
                             \/ <<run[r].phase, c>> \in
                                   CommentKeys(SeqRange(run[r].sess.pending))
                                   \cup CommentKeys(run[r].sess.fl.comments),
                  ![r].kept = \/ @
                              \/ \E x \in store.comments :
                                    /\ uq_platform_comment(x) = <<run[r].phase, c>>
                                    /\ x.product # Product(run[r])
                                    /\ x.body # normalize_text(raw),
                  ![r].added = IF run'[r] # run[r] THEN @ \cup {c} ELSE @,
                  ![r].met = @ \/ c \in hist[r].lost,
                  ![r].other = \/ @
                               \/ /\ c \notin hist[r].lost
                                  /\ <<run[r].phase, c>> \in
                                        CommentKeys(SeqRange(run[r].sess.pending))]
    /\ UNCHANGED <<store, nruns, nfail, backoffLib, cvars, fvars>>

\* a call to the platform API raises
FetchRaises(r) ==
    /\ run[r].pc = "fetch"
    /\ nfail < MaxFailures
    /\ nfail' = nfail + 1
    /\ run' = [run EXCEPT ![r] = OnException(run[r])]
    /\ store' = StoreOnException(run[r])
    /\ hist' = [hist EXCEPT ![r].extFail = TRUE,
                            ![r].lost = IF run[r].tries < Attempts
                                        THEN @ \cup hist[r].added ELSE @,
                            ![r].exhausted =
                                IF run[r].tries < Attempts THEN @
                                ELSE @ \cup {<<run[r].phase, Product(run[r]),
                                               run[r].tries>>}]
    /\ UNCHANGED <<nruns, ndeliv, backoffLib, cvars, fvars>>

\* the product's fetch returns: the loop goes to the next product, or the
\* with-block ends and get_session commits
EndOfFeed(r) ==
    /\ run[r].pc = "fetch"
    /\ run' = [run EXCEPT ![r] =
                 IF run[r].idx < Len(run[r].products)
                 THEN [run[r] EXCEPT !.pc = "start", !.idx = @ + 1, !.tries = 0,
                                     !.cur = Null]
                 ELSE [run[r] EXCEPT !.pc = "flushing", !.cur = Null,
                                     !.want = [NoWant EXCEPT !.after = "commit"]]]
    /\ UNCHANGED <<store, hist, nruns, ndeliv, nfail, backoffLib, cvars, fvars>>

\* get_session after a clean exit of the with-block: the commit has succeeded;
\* _ingest_youtube opens the next session, or run_once returns
AfterCommit(rc) ==
    IF rc.phase = "reddit"
    THEN [rc EXCEPT !.pc = "start", !.phase = "youtube", !.idx = 1, !.tries = 0,
                    !.chans = {}, !.want = NoWant, !.sess = SessionLocal]
    ELSE [rc EXCEPT !.pc = "done", !.chans = {}, !.want = NoWant,
                    !.sess = SessionLocal]

\* session.flush(), called by _get_or_create_source / _get_or_create_content
\* after session.add, and by session.commit() in get_session
Flush(r) ==
    LET rc == run[r]
        ok == [rc EXCEPT !.sess = Flushed(rc), !.want = NoWant]
        bad == [rc EXCEPT !.sess = FlushFailed, !.want = NoWant]
    IN  /\ rc.pc = "flushing"
        /\ ~LockWait(r)
        /\ IF IntegrityError(rc)
           THEN /\ run' = [run EXCEPT ![r] =
                             IF rc.want.after = "commit"
                             THEN [bad EXCEPT !.pc = "failed", !.chans = {},
                                              !.sess = SessionLocal]
                             ELSE OnException(bad)]
                /\ store' = IF rc.want.after = "commit"
                            THEN get_session(store, bad.sess, FALSE)
                            ELSE StoreOnException(bad)
                /\ hist' = [hist EXCEPT ![r].raceLost = @ \/ CommittedConflict(rc)]
           ELSE IF rc.want.after = "commit"
                THEN /\ store' = get_session(store, ok.sess, TRUE)
                     /\ run' = [run EXCEPT ![r] = AfterCommit(ok)]
                     /\ UNCHANGED hist
                ELSE /\ run' = [run EXCEPT ![r] =
                                  [ok EXCEPT !.pc = "fetch", !.cur = rc.want.item]]
                     /\ UNCHANGED <<store, hist>>
        /\ UNCHANGED <<nruns, ndeliv, nfail, backoffLib, cvars, fvars>>

---------------------------------------------------------------------------
(* app/services/sentiment.py: the lexicon analyzer and the fallback scorer.  *)
(* A float is the exact fraction num/den (den > 0).                          *)

Frac(n, d) == [num |-> n, den |-> d]
Abs(n) == IF n < 0 THEN -n ELSE n
FracGeq(a, b) == a.num * b.den >= b.num * a.den
FracLeq(a, b) == a.num * b.den <= b.num * a.den
FracAbs(a) == Frac(Abs(a.num), a.den)
FracNeg(a) == Frac(-a.num, a.den)

\* str.split(): the maximal runs of non-whitespace, in order
RECURSIVE SplitFrom(_, _, _)
SplitFrom(text, k, word) ==
    IF k > Len(text)
    THEN IF word = <<>> THEN <<>> ELSE <<word>>
    ELSE IF text[k] \in Whitespace
         THEN IF word = <<>> THEN SplitFrom(text, k + 1, <<>>)
              ELSE <<word>> \o SplitFrom(text, k + 1, <<>>)
         ELSE SplitFrom(text, k + 1, Append(word, text[k]))

Split(text) == SplitFrom(text, 1, <<>>)

POSITIVE == { <<"l", "o", "v", "e">>, <<"g", "r", "e", "a", "t">>,
              <<"a", "m", "a", "z", "i", "n", "g">>, <<"g", "o", "o", "d">>,
              <<"a", "w", "e", "s", "o", "m", "e">> }
NEGATIVE == { <<"h", "a", "t", "e">>, <<"b", "a", "d">>,
              <<"t", "e", "r", "r", "i", "b", "l", "e">>, <<"a", "w", "f", "u", "l">>,
              <<"w", "o", "r", "s", "e">> }

\* the loop of polarity_scores over the tokens
RECURSIVE ScoreTokens(_, _, _)
ScoreTokens(tokens, k, score) ==
    IF k > Len(tokens) THEN score
    ELSE ScoreTokens(tokens, k + 1,
                     score + (IF tokens[k] \in POSITIVE THEN 1 ELSE 0)
                           - (IF tokens[k] \in NEGATIVE THEN 1 ELSE 0))

\* SentimentIntensityAnalyzer.polarity_scores(text)["compound"] of the class
\* defined when vaderSentiment is missing: max(-1, min(1, score / max(len, 1)))
polarity_scores(text) ==
    LET tokens == Split(Lower(text))
        score == ScoreTokens(tokens, 1, 0)
        n == IF Len(tokens) > 1 THEN Len(tokens) ELSE 1
        capped == IF score > n THEN n ELSE score
    IN  Frac(IF capped < -n THEN -n ELSE capped, n)

\* compound scores the VADER package may give a text (it gives 0.0 to a text
\* without a lexicon word, so to the empty text)
VaderScores == {Frac(-1, 20), Frac(0, 1), Frac(1, 20)}

Blank(text) == \A j \in 1..Len(text) : text[j] \in Whitespace

\* the lists of compound scores the analyzer in use can give a batch
AnalyzerScores(texts) ==
    IF vaderLib
    THEN {f \in [1..Len(texts) -> VaderScores] :
             \A k \in 1..Len(texts) : Blank(texts[k]) => f[k] = Frac(0, 1)}
    ELSE {[k \in 1..Len(texts) |-> polarity_scores(texts[k])]}

\* the thresholds of fallback: 0.05 and -0.05
PositiveFrom == Frac(1, 20)
NegativeFrom == Frac(-1, 20)

\* a scorer whose thresholds are strict
FallbackResult_strict(compound) ==
    [sentiment |-> IF ~FracLeq(compound, PositiveFrom) THEN "positive"
                   ELSE IF ~FracGeq(compound, NegativeFrom) THEN "negative"
                   ELSE "neutral",
     confidence |-> FracAbs(compound),
     aspects |-> <<>>,
     fallback |-> TRUE]

\* the body of the loop of SentimentService.fallback for one compound score
FallbackResult(compound) ==
    [sentiment |-> IF FracGeq(compound, PositiveFrom) THEN "positive"
                   ELSE IF FracLeq(compound, NegativeFrom) THEN "negative"
                   ELSE "neutral",
     confidence |-> FracAbs(compound),
     aspects |-> <<>>,
     fallback |-> TRUE]

\* SentimentService.fallback(texts), given the analyzer's score of each text
fallback(texts, scores) == [k \in 1..Len(texts) |-> FallbackResult(scores[k])]

\* texts given to the fallback scorer
Texts ==
    { <<"I", " ", "l", "o", "v", "e", " ", "t", "h", "i", "s", " ", "p", "h", "o", "n", "e">>,
      <<"I", " ", "h", "a", "t", "e", " ", "t", "h", "e", " ", "b", "a", "t", "t", "e", "r", "y">>,
      <<>>,
      <<"g", "o", "o", "d", " ", "b", "a", "d">>,
      <<"i", "t", " ", "w", "a", "s", " ", "o", "k">>,
      <<"l", "o", "v", "e", " ", "a", " ", "a", " ", "a", " ", "a", " ", "a", " ", "a", " ", "a", " ", "a", " ", "a", " ", "a", " ", "a", " ", "a", " ", "a", " ", "a", " ", "a", " ", "a", " ", "a", " ", "a", " ", "a", " ", "a">>,
      <<"h", "a", "t", "e", " ", "a", " ", "a", " ", "a", " ", "a", " ", "a", " ", "a", " ", "a", " ", "a", " ", "a", " ", "a", " ", "a", " ", "a", " ", "a", " ", "a", " ", "a", " ", "a", " ", "a", " ", "a", " ", "a">> }

TextBatches == UNION {[1..n -> Texts] : n \in 0..MaxBatch}

\* SentimentService.fallback(fbTexts) is called; the analyzer in use gives
\* the scores
Fallback(scores) ==
    /\ fbResults = Null
    /\ fbScores' = scores
    /\ fbResults' = Some(fallback(fbTexts, scores))
    /\ UNCHANGED <<ivars, cvars, fbTexts, dc, call>>

---------------------------------------------------------------------------
(* app/utils/openai_parser.py *)

EXPECTED_ASPECTS == {"price", "battery", "camera", "performance", "design",
                     "availability", "software", "support", "other"}

Sentiments == {"positive", "neutral", "negative"}

\* JSON values: a string, a number (or anything float() accepts), a text
\* float() rejects, null, an array, an object with its key/value mapping
Text(s) == [kind |-> "string", s |-> s]
Number(n, d) == [kind |-> "number", num |-> n, den |-> d]
NotANumber == [kind |-> "text", num |-> 0, den |-> 1]
JsonNull == [kind |-> "null"]
JsonArray == [kind |-> "array"]
Object(items) == [kind |-> "object", items |-> items]

\* a payload item that is an object has the fields sentiment, confidence and
\* aspects, each Null when the key is absent and Some(value) otherwise; an item
\* that is not an object is one of the JSON values above
IsObject(payload) == "kind" \notin DOMAIN payload

\* the exception parse_sentiment_payload(payload) raises, "none" when it
\* returns: KeyError, TypeError and ValueError of the three reads become
\* OpenAIParseError; the membership test of the sentiment hashes it; .items()
\* is called on whatever aspects is
ParseException(payload) ==
    IF ~IsObject(payload) THEN "OpenAIParseError"
    ELSE IF payload.sentiment = Null THEN "OpenAIParseError"
    ELSE IF payload.confidence = Null THEN "OpenAIParseError"
    ELSE IF payload.confidence[1].kind # "number" THEN "OpenAIParseError"
    ELSE IF payload.sentiment[1].kind \in {"array", "object"} THEN "TypeError"
    ELSE IF payload.sentiment[1].kind # "string" THEN "OpenAIParseError"
    ELSE IF payload.sentiment[1].s \notin Sentiments THEN "OpenAIParseError"
    ELSE IF payload.aspects # Null /\ payload.aspects[1].kind # "object"
         THEN "AttributeError"
    ELSE "none"

\* parse_sentiment_payload raises
ParseRaises(payload) == ParseException(payload) # "none"

\* str(label)
str(label) == IF label.kind = "string" THEN label.s ELSE "None"

\* a normalisation that keeps every key
parse_sentiment_payload_keeps_all(payload) ==
    LET aspects == IF payload.aspects = Null THEN <<>> ELSE payload.aspects[1].items
    IN  [sentiment |-> payload.sentiment[1].s,
         confidence |-> Frac(payload.confidence[1].num, payload.confidence[1].den),
         aspects |-> [a \in DOMAIN aspects |-> str(aspects[a])]]

\* parse_sentiment_payload(payload) when it returns
parse_sentiment_payload(payload) ==
    LET aspects == IF payload.aspects = Null THEN <<>> ELSE payload.aspects[1].items
    IN  [sentiment |-> payload.sentiment[1].s,
         confidence |-> Frac(payload.confidence[1].num, payload.confidence[1].den),
         aspects |-> [a \in DOMAIN aspects \cap EXPECTED_ASPECTS |-> str(aspects[a])]]

\* items the generative provider may put in its JSON array
Payloads ==
    { [sentiment |-> Some(Text("positive")), confidence |-> Some(Number(9, 10)),
       aspects |-> Some(Object([battery |-> Text("good"), zoom |-> Text("bad")]))],
      [sentiment |-> Some(Text("negative")), confidence |-> Some(Number(3, 2)),
       aspects |-> Null],
      [sentiment |-> Some(Text("mixed")), confidence |-> Some(Number(1, 2)),
       aspects |-> Some(Object(<<>>))],
      [sentiment |-> Some(Text("neutral")), confidence |-> Some(NotANumber),
       aspects |-> Some(Object(<<>>))] }

\* what an item given to parse_sentiment_payload may be
ParserSentiments ==
    {Null, Some(JsonNull), Some(JsonArray)}
        \cup {Some(Text(s)) : s \in Sentiments \cup {"great"}}

ParserConfidences ==
    {Null, Some(Number(9, 10)), Some(Number(3, 2)), Some(NotANumber), Some(JsonNull)}

ParserAspects ==
    {Null, Some(JsonNull), Some(JsonArray), Some(Object(<<>>)),
     Some(Object([battery |-> Text("positive")])),
     Some(Object([battery |-> Text("good"), zoom |-> Text("bad")])),
     Some(Object([zoom |-> Text("bad"), flavour |-> Text("sweet")])),
     Some(Object([price |-> Text("high"), other |-> JsonNull, colour |-> JsonNull]))}

ParserInputs ==
    {JsonNull, JsonArray, Text("positive")}
        \cup [sentiment : ParserSentiments, confidence : ParserConfidences,
              aspects : ParserAspects]

\* parse_sentiment_payload(call.arg) is called
Parse ==
    /\ call.fn = "parse_sentiment_payload"
    /\ call.out = Null
    /\ call' = [call EXCEPT !.out =
                  Some([raised |-> ParseException(call.arg),
                        value |-> IF ParseRaises(call.arg) THEN Null
                                  ELSE Some(parse_sentiment_payload(call.arg))])]
    /\ UNCHANGED <<ivars, cvars, fbvars, dc>>

---------------------------------------------------------------------------
(* app/services/weaviate_client.py *)

\* settings.weaviate_endpoint: empty, the placeholder of the sample
\* configuration, or a real endpoint
Endpoints == {"", "your_weaviate_endpoint_here", "http://weaviate"}

MockUuid == <<"mock-uuid">>
NewUuid(n) == <<"uuid", n>>

\* WeaviateService.__init__ with _ensure_client: the client stays None when the
\* endpoint is not configured, and when connecting or ensuring the schema raises
WeaviateService(endpoint, reachable) ==
    [endpoint |-> endpoint,
     client |-> /\ endpoint # ""
                /\ endpoint # "your_weaviate_endpoint_here"
                /\ reachable,
     reachable |-> reachable,
     objects |-> {},
     next |-> 1]

\* the result of a gateway call: raised, or the value returned, and the gateway
\* and store after it
Raised(w) == [raised |-> TRUE, uuid |-> Null, results |-> <<>>, wv |-> w]
Returned(w, uuid, results) ==
    [raised |-> FALSE, uuid |-> uuid, results |-> results, wv |-> w]

\* an upsert that goes to the collection without looking at the client first
upsert_comment_unguarded(w, uuid, vector, metadata) ==
    IF ~w.client \/ ~w.reachable THEN Raised(w)
    ELSE Returned([w EXCEPT !.objects =
                      @ \cup {[uuid |-> NewUuid(w.next), properties |-> metadata,
                               vector |-> vector]},
                            !.next = @ + 1],
                  Some(NewUuid(w.next)), <<>>)

\* an upsert that inserts whether or not an id is given
upsert_comment_always_inserts(w, uuid, vector, metadata) ==
    IF ~w.client
    THEN Returned(w, IF uuid # Null THEN uuid ELSE Some(MockUuid), <<>>)
    ELSE IF ~w.reachable THEN Raised(w)
    ELSE Returned([w EXCEPT !.objects =
                      @ \cup {[uuid |-> NewUuid(w.next), properties |-> metadata,
                               vector |-> vector]},
                            !.next = @ + 1],
                  IF uuid # Null THEN uuid ELSE Some(NewUuid(w.next)), <<>>)

\* upsert_comment(uuid=..., vector=..., metadata=...).  With a client, an
\* unreachable store makes the call raise, and so does the update of an id the
\* collection does not hold
upsert_comment(w, uuid, vector, metadata) ==
    IF ~w.client
    THEN Returned(w, IF uuid # Null THEN uuid ELSE Some(MockUuid), <<>>)
    ELSE IF ~w.reachable THEN Raised(w)
    ELSE IF uuid # Null
         THEN IF \E o \in w.objects : o.uuid = uuid[1]
              THEN Returned([w EXCEPT !.objects =
                                {o \in @ : o.uuid # uuid[1]}
                                \cup {[uuid |-> uuid[1], properties |-> metadata,
                                       vector |-> vector]}],
                            uuid, <<>>)
              ELSE Raised(w)
         ELSE Returned([w EXCEPT !.objects =
                           @ \cup {[uuid |-> NewUuid(w.next), properties |-> metadata,
                                    vector |-> vector]},
                                 !.next = @ + 1],
                       Some(NewUuid(w.next)), <<>>)

\* the objects of the collection as a list (near_vector orders them by distance;
\* here by identity)
RECURSIVE ObjectList(_)
ObjectList(objs) ==
    IF objs = {} THEN <<>>
    ELSE LET o == CHOOSE x \in objs : \A y \in objs : x.uuid[2] <= y.uuid[2]
         IN  <<[uuid |-> o.uuid, properties |-> o.properties]>>
             \o ObjectList(objs \ {o})

Take(seq, n) == SubSeq(seq, 1, IF n < Len(seq) THEN n ELSE Len(seq))

\* semantic_search(query_vector, limit)
semantic_search(w, query_vector, limit) ==
    IF ~w.client THEN Returned(w, Null, <<>>)
    ELSE IF ~w.reachable THEN Raised(w)
    ELSE Returned(w, Null, Take(ObjectList(w.objects), limit))

NoCall == [op |-> "none", raised |-> FALSE, uuid |-> Null, results |-> <<>>,
           given |-> Null, reachable |-> TRUE, before |-> {}, vector |-> <<>>]

Vectors == {<<1, 0>>, <<0, 1>>}
Limits == {1, 10}

\* a caller upserts: without an id, with the placeholder id, or with an id the
\* gateway returned earlier
UpsertIds(w) == {Null, Some(MockUuid)} \cup {Some(o.uuid) : o \in w.objects}

GatewayUpsert(uuid, vector) ==
    LET res == upsert_comment(wv, uuid, vector, [text |-> <<>>])
    IN  /\ uuid \in UpsertIds(wv)
        /\ wv.next <= MaxObjects
        /\ wv' = res.wv
        /\ gw' = [op |-> "upsert", raised |-> res.raised, uuid |-> res.uuid,
                  results |-> <<>>, given |-> uuid, reachable |-> wv.reachable,
                  before |-> wv.objects, vector |-> vector]
        /\ UNCHANGED <<ivars, vaderLib, cl, ncls, fvars>>

GatewaySearch(vector, limit) ==
    LET res == semantic_search(wv, vector, limit)
    IN  /\ gw' = [op |-> "search", raised |-> res.raised, uuid |-> Null,
                  results |-> res.results, given |-> Null,
                  reachable |-> wv.reachable, before |-> wv.objects,
                  vector |-> vector]
        /\ UNCHANGED <<ivars, vaderLib, wv, cl, ncls, fvars>>

\* the vector store goes down or comes back
ReachabilityChanges ==
    /\ wv' = [wv EXCEPT !.reachable = ~@]
    /\ UNCHANGED <<ivars, vaderLib, gw, cl, ncls, fvars>>

\* the same, the store going down only while the collection has room left for
\* an entry per stored comment (the model bounds the entries inserted)
Outage ==
    /\ wv.reachable => wv.next + NumComments <= MaxObjects + 1
    /\ ReachabilityChanges

---------------------------------------------------------------------------
(* app/services/embeddings.py *)

\* the vector the embedding provider gives the k-th text of a batch
Embedding(texts, k) == <<k, Len(texts[k])>>

\* an embed that returns the vectors in reverse order
embed_reversed(texts, m) == [k \in 1..m |-> Embedding(texts, m + 1 - k)]

\* EmbeddingService.embed(texts) when the provider returns m vectors
embed(texts, m) == [k \in 1..m |-> Embedding(texts, k)]

---------------------------------------------------------------------------
(* app/services/classification.py *)

ClsTasks == {1, 2}

\* the comments ingestion has stored, with the primary key the database gave
WithId(row, n) ==
    [f \in DOMAIN row \cup {"id"} |-> IF f = "id" THEN n ELSE row[f]]

StoredBody(n) ==
    CASE n = 1 -> <<"i", " ", "l", "o", "v", "e", " ", "t", "h", "i", "s", " ", "p", "h", "o", "n", "e">>
      [] n = 2 -> <<"i", " ", "h", "a", "t", "e", " ", "t", "h", "e", " ", "b", "a", "t", "t", "e", "r", "y">>
      [] OTHER -> <<>>

StoredCommentId(n) ==
    CASE n = 1 -> "c1" [] n = 2 -> "c2" [] n = 3 -> "c3" [] OTHER -> "c4"

StoredComments ==
    {WithId(Comment("reddit", StoredCommentId(n), "p1",
                    AuthorColumn("reddit", AuthorOfComment(StoredCommentId(n))),
                    StoredBody(n), "i1"), n) :
        n \in 1..NumComments}

IdleCls ==
    [pc |-> "idle", ids |-> Null, comments |-> <<>>, sentiments |-> <<>>,
     embeddings |-> <<>>, k |-> 0, tries |-> 0, why |-> "none", cause |-> "none"]

\* the arguments of run_pending: None, the empty collection, one id, every id
IdArgs == {Null, Some({}), Some({1}), Some(1..NumComments)}

RECURSIVE OrderById(_)
OrderById(rows) ==
    IF rows = {} THEN <<>>
    ELSE LET x == CHOOSE y \in rows : \A z \in rows : y.id <= z.id
         IN  <<x>> \o OrderById(rows \ {x})

\* _load_comments(session, comment_ids)
_load_comments(st, comment_ids) ==
    OrderById({x \in st.comments :
                  /\ x.processed = FALSE
                  /\ (comment_ids # Null /\ comment_ids[1] # {})
                        => x.id \in comment_ids[1]})

Bodies(c) == [k \in 1..Len(c.comments) |-> c.comments[k].body]

\* the session of run_pending when its with-block is left: the loaded comments
\* are its modified objects
Modified(objects) == [SessionLocal EXCEPT !.upd.comments = objects]

\* a run_pending that goes on to classify whatever it has loaded
AfterLoad_no_return(comments) == "classify"

\* `if not comments: return`: where run_pending is after the selection
AfterLoad(comments) == IF comments = <<>> THEN "done" ELSE "classify"

\* the body of run_pending(comment_ids) up to the first await
LoadPending(t, comment_ids) ==
    LET comments == _load_comments(store, comment_ids)
    IN  /\ cl[t].pc \in {"idle", "done", "failed"}
        /\ cl' = [cl EXCEPT ![t] =
                    [IdleCls EXCEPT !.pc = AfterLoad(comments),
                                    !.ids = comment_ids,
                                    !.comments = comments]]
        /\ store' = IF comments = <<>> THEN get_session(store, Modified({}), TRUE) ELSE store
        /\ UNCHANGED <<run, hist, nruns, ndeliv, nfail, backoffLib, vaderLib, wv, gw,
                       fvars>>

\* run_pending(comment_ids) is invoked, one of a bounded number of invocations
RunPending(t, comment_ids) ==
    /\ ncls < MaxClsRuns
    /\ ncls' = ncls + 1
    /\ LoadPending(t, comment_ids)

\* run_pending() is invoked by scripts/run_classify.py, any number of times
RunPendingAgain(t) ==
    /\ ncls' = ncls
    /\ LoadPending(t, Null)

\* a run_pending without the try/except around classify
ClassifyFailed_propagates(c, kind) ==
    IF c.tries + 1 < Attempts
    THEN {[c EXCEPT !.tries = @ + 1]}
    ELSE {[c EXCEPT !.why = kind, !.pc = "failed", !.cause = "classify"]}

\* an exception leaves the body of classify: backoff calls classify again until
\* the attempts are used up; then run_pending catches it and takes the
\* fallback scorer's results.  The set of states classify may leave.
ClassifyFailed(c, kind) ==
    IF c.tries + 1 < Attempts
    THEN {[c EXCEPT !.tries = @ + 1]}
    ELSE {[c EXCEPT !.tries = 0, !.why = kind, !.pc = "embed",
                    !.sentiments = fallback(Bodies(c), scores)] :
             scores \in AnalyzerScores(Bodies(c))}

\* the arrays the provider may answer a batch of n texts with
ProviderArrays(n) ==
    UNION {[1..m -> Payloads] : m \in {k \in {n - 1, n} : k >= 0}}

Batch(t) == Len(cl[t].comments)

\* classify: the provider answers with a JSON array
\* a classify that scores only the items that fail validation with the fallback
ClassifyReturns_per_item(t, data) ==
    LET c == cl[t]
        bad == {k \in 1..Len(data) : ParseRaises(data[k])}
    IN  /\ c.pc = "classify"
        /\ \E scores \in AnalyzerScores(Bodies(c)) :
              cl' = [cl EXCEPT ![t] =
                       [c EXCEPT !.tries = 0, !.pc = "embed",
                                 !.why = IF bad = {} THEN "none" ELSE "parse",
                                 !.sentiments =
                                     [k \in 1..Len(data) |->
                                         IF k \in bad
                                         THEN fallback(Bodies(c), scores)[k]
                                         ELSE parse_sentiment_payload(data[k])]]]
        /\ UNCHANGED <<ivars, vaderLib, wv, gw, ncls, fvars>>

ClassifyReturns(t, data) ==
    LET c == cl[t]
    IN  /\ c.pc = "classify"
        /\ \E n \in IF \E k \in 1..Len(data) : ParseRaises(data[k])
                     THEN ClassifyFailed(c, "parse")
                     ELSE {[c EXCEPT !.tries = 0, !.pc = "embed",
                                     !.sentiments =
                                         [k \in 1..Len(data) |->
                                             parse_sentiment_payload(data[k])]]} :
              cl' = [cl EXCEPT ![t] = n]
        /\ UNCHANGED <<ivars, vaderLib, wv, gw, ncls, fvars>>

\* classify: the provider answers with text json.loads rejects
ClassifyInvalidJson(t) ==
    /\ cl[t].pc = "classify"
    /\ \E n \in ClassifyFailed(cl[t], "json") : cl' = [cl EXCEPT ![t] = n]
    /\ UNCHANGED <<ivars, vaderLib, wv, gw, ncls, fvars>>

\* classify: the call to the provider raises
ClassifyApiError(t) ==
    /\ cl[t].pc = "classify"
    /\ \E n \in ClassifyFailed(cl[t], "api") : cl' = [cl EXCEPT ![t] = n]
    /\ UNCHANGED <<ivars, vaderLib, wv, gw, ncls, fvars>>

\* the numbers of vectors the provider may answer a batch of n texts with
ProviderVectors(n) == {k \in {n - 1, n} : k >= 0}

\* embed returns m vectors
EmbedReturns(t, m) ==
    /\ cl[t].pc = "embed"
    /\ cl' = [cl EXCEPT ![t].pc = "write", ![t].k = 1, ![t].tries = 0,
                        ![t].embeddings = embed(Bodies(cl[t]), m)]
    /\ UNCHANGED <<ivars, vaderLib, wv, gw, ncls, fvars>>

\* embed raises: backoff retries; the last exception leaves run_pending
\* a run_pending that takes a failed embedding for an empty batch and returns
AfterEmbedRaises_returns(c) == [c EXCEPT !.pc = "done", !.sentiments = <<>>]

\* `embeddings = await self._embeddings.embed(bodies)` has no handler: the
\* exception leaves run_pending before the loop over the comments
AfterEmbedRaises(c) ==
    [c EXCEPT !.pc = "failed", !.cause = "embed", !.sentiments = <<>>]

EmbedRaises(t) ==
    /\ cl[t].pc = "embed"
    /\ cl' = [cl EXCEPT ![t] =
                IF cl[t].tries + 1 < Attempts
                THEN [cl[t] EXCEPT !.tries = @ + 1]
                ELSE AfterEmbedRaises(cl[t])]
    /\ store' = IF cl[t].tries + 1 < Attempts THEN store
                ELSE get_session(store, Modified(SeqRange(cl[t].comments)), FALSE)
    /\ UNCHANGED <<run, hist, nruns, ndeliv, nfail, backoffLib, vaderLib, wv, gw,
                   ncls, fvars>>

Min(a, b) == IF a < b THEN a ELSE b

\* the number of triples zip(comments, sentiments, embeddings) yields
Zipped(c) == Min(Len(c.comments), Min(Len(c.sentiments), Len(c.embeddings)))

\* int(sentiment["confidence"] * 100): truncation toward zero
IntPercent(f) ==
    IF f.num >= 0 THEN (100 * f.num) \div f.den ELSE -((100 * (-f.num)) \div f.den)

\* the assignments of the loop body before the upsert
Classified(comment, sentiment) ==
    [comment EXCEPT !.sentiment = Some(sentiment.sentiment),
                    !.sentiment_confidence = Some(IntPercent(sentiment.confidence)),
                    !.aspects = Some(sentiment.aspects)]

Metadata(comment) ==
    [comment_id |-> comment.id, product |-> comment.product,
     platform |-> comment.platform, sentiment |-> comment.sentiment[1],
     aspects |-> DOMAIN comment.aspects[1], text |-> comment.body]

\* one pass of the loop of run_pending
WriteComment(t) ==
    LET c == cl[t]
        comment == Classified(c.comments[c.k], c.sentiments[c.k])
        res == upsert_comment(wv, comment.weaviate_uuid, c.embeddings[c.k],
                              Metadata(comment))
    IN  /\ c.pc = "write"
        /\ c.k <= Zipped(c)
        /\ wv.next <= MaxObjects
        /\ wv' = res.wv
        /\ IF res.raised
           THEN /\ cl' = [cl EXCEPT ![t].pc = "failed", ![t].cause = "upsert",
                                    ![t].comments[c.k] = comment,
                                    ![t].sentiments = <<>>, ![t].embeddings = <<>>]
                /\ store' = get_session(store, Modified(SeqRange(cl'[t].comments)), FALSE)
           ELSE /\ cl' = [cl EXCEPT ![t].k = @ + 1,
                                    ![t].comments[c.k] =
                                        [comment EXCEPT !.weaviate_uuid = res.uuid,
                                                        !.processed = TRUE]]
                /\ UNCHANGED store
        /\ UNCHANGED <<run, hist, nruns, ndeliv, nfail, backoffLib, vaderLib, gw,
                       ncls, fvars>>

\* the loop is over: session.flush(), and get_session commits
Finish(t) ==
    /\ cl[t].pc = "write"
    /\ cl[t].k > Zipped(cl[t])
    /\ cl' = [cl EXCEPT ![t].pc = "done"]
    /\ store' = get_session(store, Modified(SeqRange(cl[t].comments)), TRUE)
    /\ UNCHANGED <<run, hist, nruns, ndeliv, nfail, backoffLib, vaderLib, wv, gw,
                   ncls, fvars>>

---------------------------------------------------------------------------
(* app/services/channel_discovery.py, with the suggestion calls of          *)
(* app/services/alias_helper.py.  A subreddit name is a number.  A score is *)
(* the value of the float expression, kept exactly as a fraction; "via" is  *)
(* not a key of the item: it records the strategy that produced it.         *)

\* ranked[:20] of discover_reddit, _reddit_from_suggested_queries, measure_subreddits
RankLimit == 20
\* (subreddit_names or [])[:20]
NameLimit == 20
\* queries[:5]
QueryLimit == 5

FracGt(a, b) == a.num * b.den > b.num * a.den

ChannelIds(items) == {items[k].channel_id : k \in 1..Len(items)}
PositionOf(items, cid) == CHOOSE k \in 1..Len(items) : items[k].channel_id = cid

\* results.setdefault(name, {...}) and the three += of accumulate: a dict keeps
\* its keys in the order of their first insertion
accumulate(results, name, submission) ==
    LET dict == IF name \in ChannelIds(results) THEN results
                ELSE Append(results, [channel_id |-> name, mentions |-> 0,
                                      avg_score |-> 0, comments |-> 0])
        k == PositionOf(dict, name)
    IN  [dict EXCEPT ![k].mentions = @ + 1,
                     ![k].avg_score = @ + submission.score,
                     ![k].comments = @ + submission.num_comments]

\* async for submission in subreddit.new(...): accumulate(name, submission)
RECURSIVE MeasureInto(_, _, _)
MeasureInto(results, name, submissions) ==
    IF submissions = <<>> THEN results
    ELSE MeasureInto(accumulate(results, name, Head(submissions)), name,
                     Tail(submissions))

\* async for submission in subreddit.search(q, ...): the entry is that of
\* submission.subreddit.display_name
RECURSIVE SearchInto(_, _)
SearchInto(aggregated, submissions) ==
    IF submissions = <<>> THEN aggregated
    ELSE SearchInto(accumulate(aggregated, Head(submissions).subreddit,
                               Head(submissions)),
                    Tail(submissions))

\* a scoring that adds the sum of the native scores instead of their mean
Scored_sum_not_mean(data, via) ==
    [channel_id |-> data.channel_id,
     mentions   |-> data.mentions,
     avg_score  |-> Frac(data.avg_score, 1),
     comments   |-> data.comments,
     score      |-> Frac(6 * data.mentions + 2 * data.avg_score + 2 * data.comments, 10),
     via        |-> via]

\* mentions * 0.6 + (avg_score / max(mentions, 1)) * 0.2 + comments * 0.2
Scored(data, via) ==
    LET mentions == IF data.mentions > 1 THEN data.mentions ELSE 1
    IN  [channel_id |-> data.channel_id,
         mentions   |-> data.mentions,
         avg_score  |-> Frac(data.avg_score, mentions),
         comments   |-> data.comments,
         score      |-> Frac(6 * data.mentions * mentions + 2 * data.avg_score
                               + 2 * data.comments * mentions,
                             10 * mentions),
         via        |-> via]

ScoredAll(dict, via) == [k \in 1..Len(dict) |-> Scored(dict[k], via)]

\* sorted(items, key=score, reverse=True): stable, so items of equal score keep
\* their order
RECURSIVE InsertByScore(_, _)
InsertByScore(ranked, item) ==
    IF ranked = <<>> THEN <<item>>
    ELSE IF FracGt(item.score, Head(ranked).score) THEN <<item>> \o ranked
    ELSE <<Head(ranked)>> \o InsertByScore(Tail(ranked), item)

RECURSIVE SortFrom(_, _, _)
SortFrom(items, k, ranked) ==
    IF k > Len(items) THEN ranked
    ELSE SortFrom(items, k + 1, InsertByScore(ranked, items[k]))

sorted(items) == SortFrom(items, 1, <<>>)

\* a ranking that cuts the list without sorting it
Ranked_unsorted(items) == Take(items, RankLimit)

\* sorted(..., reverse=True)[:20]
Ranked(items) == Take(sorted(items), RankLimit)

\* merged[cid] = item: a new key goes to the end, a known key keeps its place
Put(merged, item) ==
    IF item.channel_id \in ChannelIds(merged)
    THEN [merged EXCEPT ![PositionOf(merged, item.channel_id)] = item]
    ELSE Append(merged, item)

\* a merge in which the later set wins a tie
MergeItem_later_wins(merged, item) ==
    IF \/ item.channel_id \notin ChannelIds(merged)
       \/ ~FracGt(merged[PositionOf(merged, item.channel_id)].score, item.score)
    THEN Put(merged, item)
    ELSE merged

\* if cid not in merged or item["score"] > merged[cid]["score"]: merged[cid] = item
MergeItem(merged, item) ==
    IF \/ item.channel_id \notin ChannelIds(merged)
       \/ FracGt(item.score, merged[PositionOf(merged, item.channel_id)].score)
    THEN Put(merged, item)
    ELSE merged

RECURSIVE PutAll(_, _, _)
PutAll(merged, items, k) ==
    IF k > Len(items) THEN merged
    ELSE PutAll(Put(merged, items[k]), items, k + 1)

RECURSIVE MergeAll(_, _, _)
MergeAll(merged, items, k) ==
    IF k > Len(items) THEN merged
    ELSE MergeAll(MergeItem(merged, items[k]), items, k + 1)

\* the two loops over a_results and b_results
Merged(a_results, b_results) == MergeAll(PutAll(<<>>, a_results, 1), b_results, 1)

\* what the services answer ------------------------------------------------

\* suggest_subreddits returns at most 20 distinct names
SubredditLists ==
    {<<>>} \cup {[k \in 1..n |-> k] : n \in 1..MaxNames}
           \cup {[k \in 1..MaxNames |-> MaxNames + 1 - k]}

\* suggest_reddit_queries returns at most 20 distinct queries
QueryLists == {[k \in 1..n |-> k] : n \in 0..MaxQueries}

Submission(sub, score, num_comments) ==
    [subreddit |-> sub, score |-> score, num_comments |-> num_comments]

\* the posts subreddit.new(limit=20) yields before it ends, each as
\* <<score, num_comments>>
NewPosts == {<<>>, << <<3, 0>> >>, << <<0, 5>> >>}

NewListing(name, posts) ==
    [k \in 1..Len(posts) |-> Submission(name, posts[k][1], posts[k][2])]

\* the posts subreddit.search(q, ...) yields before it ends: none, one of a
\* subreddit that may have been suggested, one of a subreddit that was not,
\* and posts of more subreddits than the ranking keeps, with growing and with
\* equal scores
SearchListings ==
    {<<>>,
     <<Submission(1, 3, 0)>>,
     <<Submission(ManySubs, 1, 1)>>,
     [k \in 1..ManySubs |-> Submission(k, 0, k)],
     [k \in 1..ManySubs |-> Submission(k, 0, 0)]}

\* discover_reddit -----------------------------------------------------------

\* the submissions a listing has yielded, each with the channel it was counted
\* for and the strategy that counted it, added to the bag of all of them
RECURSIVE Attributed(_, _, _, _)
Attributed(posts, submissions, via, k) ==
    IF k > Len(submissions) THEN posts
    ELSE Attributed(posts (+) SetToBag({[channel_id |-> submissions[k].subreddit,
                                         score |-> submissions[k].score,
                                         num_comments |-> submissions[k].num_comments,
                                         via |-> via]}),
                    submissions, via, k + 1)

\* okResults and okAggregated are not in the code: they hold what the two dicts
\* would hold had only the calls that ended without an exception contributed;
\* posts is not in the code either: it is the bag of the submissions yielded
IdleDisc ==
    [pc |-> "idle", suggested |-> <<>>, queries |-> <<>>, k |-> 0,
     results |-> <<>>, aggregated |-> <<>>, okResults |-> <<>>,
     okAggregated |-> <<>>, failed |-> FALSE,
     posts |-> EmptyBag,
     a_results |-> <<>>, b_results |-> <<>>, merged |-> <<>>, ret |-> Null]

\* discover_reddit(products) is called
Discover ==
    /\ dc.pc \in {"idle", "returned"}
    /\ dc' = [IdleDisc EXCEPT !.pc = "suggest_subreddits"]
    /\ UNCHANGED <<ivars, cvars, fbvars, call>>

\* _reddit_from_suggested_subreddits: the suggestion is in
AfterSuggestSubreddits(suggested, raised) ==
    /\ dc.pc = "suggest_subreddits"
    /\ dc' = IF suggested = <<>>
             THEN [dc EXCEPT !.pc = "suggest_queries", !.a_results = <<>>,
                             !.failed = @ \/ raised]
             ELSE [dc EXCEPT !.pc = "measure", !.suggested = suggested, !.k = 1]
    /\ UNCHANGED <<ivars, cvars, fbvars, call>>

\* suggest_subreddits returns a list (the empty one when the provider failed
\* or answered with something that is not an array of names)
SuggestSubredditsReturns(suggested) == AfterSuggestSubreddits(suggested, FALSE)

\* AliasHelper() or suggest_subreddits raises: logged, suggested stays []
SuggestSubredditsRaises == AfterSuggestSubreddits(<<>>, TRUE)

\* after the loop of measure_subreddits: the scores, the ranking
AfterMeasure(d) ==
    IF d.k > Len(Take(d.suggested, NameLimit))
    THEN [d EXCEPT !.pc = "suggest_queries",
                   !.a_results = Ranked(ScoredAll(d.results, "a"))]
    ELSE d

\* one turn of the loop of measure_subreddits: the listing yields submissions
\* and ends, or raises after them (raised); the exception is logged
Measure(posts, raised) ==
    LET name == dc.suggested[dc.k]
        submissions == NewListing(name, posts)
    IN  /\ dc.pc = "measure"
        /\ dc' = AfterMeasure(
                   [dc EXCEPT !.k = @ + 1,
                              !.results = MeasureInto(@, name, submissions),
                              !.okResults = IF raised THEN @
                                            ELSE MeasureInto(@, name, submissions),
                              !.posts = Attributed(@, submissions, "a", 1),
                              !.failed = @ \/ raised])
        /\ UNCHANGED <<ivars, cvars, fbvars, call>>

\* after the loop of _reddit_from_suggested_queries: the scores, the ranking
AfterSearch(d) ==
    IF d.k > Len(Take(d.queries, QueryLimit))
    THEN [d EXCEPT !.pc = "rank",
                   !.b_results = Ranked(ScoredAll(d.aggregated, "b"))]
    ELSE d

\* _reddit_from_suggested_queries: the suggestion is in
AfterSuggestQueries(queries, raised) ==
    /\ dc.pc = "suggest_queries"
    /\ dc' = IF queries = <<>>
             THEN [dc EXCEPT !.pc = "rank", !.b_results = <<>>,
                             !.failed = @ \/ raised]
             ELSE [dc EXCEPT !.pc = "search", !.queries = queries, !.k = 1]
    /\ UNCHANGED <<ivars, cvars, fbvars, call>>

SuggestQueriesReturns(queries) == AfterSuggestQueries(queries, FALSE)

\* AliasHelper() or suggest_reddit_queries raises: logged, queries stays []
SuggestQueriesRaises == AfterSuggestQueries(<<>>, TRUE)

\* one turn of the loop over queries[:5]
Search(submissions, raised) ==
    /\ dc.pc = "search"
    /\ dc' = AfterSearch(
               [dc EXCEPT !.k = @ + 1,
                          !.aggregated = SearchInto(@, submissions),
                          !.okAggregated = IF raised THEN @
                                           ELSE SearchInto(@, submissions),
                          !.posts = Attributed(@, submissions, "b", 1),
                          !.failed = @ \/ raised])
    /\ UNCHANGED <<ivars, cvars, fbvars, call>>

\* the merge, the ranking and the return of discover_reddit
Rank ==
    /\ dc.pc = "rank"
    /\ LET merged == Merged(dc.a_results, dc.b_results)
       IN  dc' = [dc EXCEPT !.pc = "returned",
                            !.merged = merged,
                            !.ret = Some(Ranked(merged))]
    /\ UNCHANGED <<ivars, cvars, fbvars, call>>

---------------------------------------------------------------------------
(* app/services/alias_helper.py *)

\* a JSON array with its items
Array(items) == [kind |-> "array", items |-> items]

\* what the call of the generative provider gives: the call raises, or the
\* text of the response is no JSON, or it is the JSON value json
ProviderRaises == [kind |-> "raises"]
NotJson == [kind |-> "invalid"]
Json(value) == [kind |-> "json", value |-> value]

\* the code point of a character, for the order of sorted()
CodePoint(ch) ==
    CASE ch = " " -> 32 [] ch = "A" -> 65 [] ch = "B" -> 66
      [] ch = "a" -> 97 [] ch = "b" -> 98 [] ch = "x" -> 120

\* s < t for two texts
RECURSIVE TextLess(_, _)
TextLess(s, t) ==
    IF t = <<>> THEN FALSE
    ELSE IF s = <<>> THEN TRUE
    ELSE IF Head(s) = Head(t) THEN TextLess(Tail(s), Tail(t))
    ELSE CodePoint(Head(s)) < CodePoint(Head(t))

\* sorted(set(...)) of texts
RECURSIVE SortedTexts(_)
SortedTexts(texts) ==
    IF texts = {} THEN <<>>
    ELSE LET least == CHOOSE x \in texts : \A y \in texts \ {x} : TextLess(x, y)
         IN  <<least>> \o SortedTexts(texts \ {least})

\* pl.replace(" ", "")
RECURSIVE RemoveSpaces(_)
RemoveSpaces(text) ==
    IF text = <<>> THEN <<>>
    ELSE IF Head(text) = " " THEN RemoveSpaces(Tail(text))
    ELSE <<Head(text)>> \o RemoveSpaces(Tail(text))

\* a fallback that gives the lowercase forms only
Variants_lowercase_only(p) ==
    IF RemoveSpaces(Lower(p)) = Lower(p) THEN <<Lower(p)>>
    ELSE <<Lower(p), RemoveSpaces(Lower(p))>>

\* the except branch of generate_aliases: variants of product p
Variants(p) ==
    LET pl == Lower(p)
        first == IF pl # p THEN <<p, pl>> ELSE <<p>>
        nospace == RemoveSpaces(pl)
    IN  IF nospace \notin SeqRange(first) THEN Append(first, nospace) ELSE first

\* data.get(product) if isinstance(data, dict) else None
AliasesFor(response, product) ==
    IF response.value.kind = "object" /\ product \in DOMAIN response.value.items
    THEN response.value.items[product]
    ELSE JsonNull

\* sorted(set([product] + (aliases or []))) can be built: aliases are falsy
\* or a list, and its items are texts, which can be hashed and compared
\* with the product
Listable(aliases) ==
    \/ aliases.kind = "null"
    \/ aliases.kind = "string" /\ aliases.s = <<>>
    \/ /\ aliases.kind = "array"
       /\ \A k \in 1..Len(aliases.items) : aliases.items[k].kind = "string"

\* the try block of generate_aliases raises: the provider call or json.loads
\* does, or [product] + aliases, set() or sorted() does
AliasesRaise(products, response) ==
    \/ response.kind # "json"
    \/ \E k \in 1..Len(products) : ~Listable(AliasesFor(response, products[k]))

\* generate_aliases(products) given the provider's response: the mapping
\* returned
generate_aliases(products, response) ==
    [product \in SeqRange(products) |->
        IF AliasesRaise(products, response) THEN Variants(product)
        ELSE LET aliases == AliasesFor(response, product)
             IN  SortedTexts({product} \cup
                             (IF aliases.kind = "array"
                              THEN {item.s : item \in SeqRange(aliases.items)}
                              ELSE {}))]

\* products of a request
AliasProducts == {<<"a">>, <<"B">>, <<"a", " ", "b">>, <<"A", " ", "B">>}

AliasProductLists == UNION {[1..n -> AliasProducts] : n \in 0..MaxProducts}

\* what the provider may answer to the alias prompt: an error, text that is
\* no JSON, an array, an object without keys, and objects that give every
\* product two aliases, null, a text, a list with a number, or give one
\* product itself twice
AliasAnswers(value) == Object([product \in AliasProducts |-> value])

AliasResponses ==
    {ProviderRaises, NotJson, Json(JsonArray), Json(Object(<<>>)),
     Json(Object([product \in AliasProducts |-> Array(<<Text(<<"x">>), Text(Lower(product))>>)])),
     Json(AliasAnswers(JsonNull)),
     Json(AliasAnswers(Text(<<"x">>))),
     Json(AliasAnswers(Array(<<Text(<<"x">>), Number(1, 1)>>))),
     Json(Object([product \in {<<"B">>} |->
                     Array(<<Text(product), Text(product)>>)]))}

\* generate_aliases(call.arg) is called and the provider gives response
GenerateAliases(response) ==
    /\ call.fn = "generate_aliases"
    /\ call.out = Null
    /\ call' = [call EXCEPT !.out =
                  Some([response |-> response,
                        value |-> generate_aliases(call.arg, response)])]
    /\ UNCHANGED <<ivars, cvars, fbvars, dc>>

\* scored[:20] and `len(out) >= 20`
SuggestLimit == 20

\* q[:128]
QueryChars == 128

\* the text of n characters ch
Repeat(ch, n) == [k \in 1..n |-> ch]

\* the items of a response that is a JSON list, none otherwise
Items(response) ==
    IF /\ response.kind = "json"
       /\ response.value.kind = "array"
       /\ "items" \in DOMAIN response.value
    THEN response.value.items
    ELSE <<>>

\* name.startswith("r/")
StartsWithR(name) == Len(name) >= 2 /\ name[1] = "r" /\ name[2] = "/"

\* the name of one item of the list: stripped, without a leading r/
NameOf(item) ==
    LET name == Strip(item.s)
    IN  IF StartsWithR(name) THEN SubSeq(name, 3, Len(name)) ELSE name

\* candidates of suggest_subreddits: the names of the items that are texts
\* with something other than whitespace
RECURSIVE Candidates(_)
Candidates(items) ==
    IF items = <<>> THEN <<>>
    ELSE IF Head(items).kind = "string" /\ Strip(Head(items).s) # <<>>
         THEN <<NameOf(Head(items))>> \o Candidates(Tail(items))
         ELSE Candidates(Tail(items))

\* [a-zA-Z0-9] among the characters of the model
Alnum == {"a", "b", "r", "x", "A", "B", "X"}

\* re.split(r"[^a-zA-Z0-9]+", text): the pieces from position k on, where
\* piece is the one being read
RECURSIVE SplitAt(_, _, _)
SplitAt(text, k, piece) ==
    IF k > Len(text) THEN {piece}
    ELSE IF text[k] \in Alnum THEN SplitAt(text, k + 1, Append(piece, text[k]))
    ELSE {piece} \cup SplitAt(text, k + 1, <<>>)

\* to_tokens(items)
to_tokens(items) ==
    UNION {{tok \in SplitAt(Lower(items[k]), 1, <<>>) : Len(tok) > 1} :
             k \in 1..Len(items)}

\* tok in s
Contains(s, tok) ==
    \E k \in 0..(Len(s) - Len(tok)) : SubSeq(s, k + 1, k + Len(tok)) = tok

\* the sort key of suggest_subreddits
Overlap(s, product_tokens) ==
    Cardinality({tok \in product_tokens : Contains(Lower(s), tok)})

\* sorted(..., key=Overlap, reverse=True): name enters after the names whose
\* key is at least its own
InsertByOverlap(sortedNames, name, product_tokens) ==
    LET ahead == {k \in 1..Len(sortedNames) :
                    Overlap(sortedNames[k], product_tokens)
                      < Overlap(name, product_tokens)}
        at == IF ahead = {} THEN Len(sortedNames) + 1
              ELSE CHOOSE k \in ahead : \A j \in ahead : k <= j
    IN  SubSeq(sortedNames, 1, at - 1) \o <<name>>
          \o SubSeq(sortedNames, at, Len(sortedNames))

RECURSIVE SortByOverlap(_, _, _)
SortByOverlap(names, k, product_tokens) ==
    IF k = 0 THEN <<>>
    ELSE InsertByOverlap(SortByOverlap(names, k - 1, product_tokens),
                         names[k], product_tokens)

\* the entries of a list in the order of their first appearance
RECURSIVE FirstSeen(_, _)
FirstSeen(entries, k) ==
    IF k = 0 THEN <<>>
    ELSE IF entries[k] \in {entries[j] : j \in 1..(k - 1)}
         THEN FirstSeen(entries, k - 1)
         ELSE Append(FirstSeen(entries, k - 1), entries[k])

Reversed(seq) == [k \in 1..Len(seq) |-> seq[Len(seq) + 1 - k]]

\* list({c for c in candidates if c}): the orders in which the set may be
\* iterated. The order depends on the hashes of the texts, which differ from
\* one process to the next; every order is tried for a set of up to
\* MaxPermuted names, and two of them for a larger one
IterationOrders(candidates) ==
    LET names == SeqRange(candidates) \ {<<>>}
        seen == FirstSeen(SelectSeq(candidates, LAMBDA c : c # <<>>),
                          Len(SelectSeq(candidates, LAMBDA c : c # <<>>)))
    IN  IF Cardinality(names) <= MaxPermuted
        THEN {order \in [1..Cardinality(names) -> names] :
                 \A i, j \in 1..Cardinality(names) : order[i] = order[j] => i = j}
        ELSE {seen, Reversed(seen)}

\* the try block of a suggest function raises
SuggestRaises(response) == response.kind # "json"

\* suggest_subreddits(products) given the provider's response and the order
\* in which the set of candidates is iterated
suggest_subreddits(products, response, order) ==
    IF SuggestRaises(response) THEN <<>>
    ELSE Take(SortByOverlap(order, Len(order), to_tokens(products)), SuggestLimit)

\* queries of suggest_reddit_queries: the items that are texts, stripped, if
\* anything is left, cut to 128 characters
RECURSIVE Queries(_)
Queries(items) ==
    IF items = <<>> THEN <<>>
    ELSE IF Head(items).kind = "string" /\ Strip(Head(items).s) # <<>>
         THEN <<Take(Strip(Head(items).s), QueryChars)>> \o Queries(Tail(items))
         ELSE Queries(Tail(items))

\* suggest_reddit_queries(products) given the provider's response
suggest_reddit_queries(response) ==
    IF SuggestRaises(response) THEN <<>>
    ELSE LET queries == Queries(Items(response))
         IN  Take(FirstSeen(queries, Len(queries)), SuggestLimit)

\* products of a suggestion request
SuggestProductNames == {<<"a", "b">>, <<"X">>, <<"A", "B", " ", "x">>}

SuggestProducts == UNION {[1..n -> SuggestProductNames] : n \in 0..MaxProducts}

\* what the provider may answer to a suggestion prompt: an error, text that
\* is no JSON, an object, and lists: of two names, of names that are equal
\* once stripped, of a repeated name, of nothing but blanks, of more names
\* than the limit, and of two texts that differ after 128 characters
SuggestResponses ==
    {ProviderRaises, NotJson, Json(Object(<<>>)),
     Json(Array(<<Text(<<"x">>), Text(<<"a", "b">>)>>)),
     Json(Array(<<Text(<<" ", "r", "/", "a", "b", " ">>), Text(<<"a", "b">>),
                  Number(1, 1), Text(<<"x">>)>>)),
     Json(Array(<<Text(<<"x">>), Text(<<"b">>), Text(<<"x">>)>>)),
     Json(Array(<<Text(<<"r", "/">>), Text(<<" ">>), JsonNull>>)),
     Json(Array([k \in 1..(SuggestLimit + 2) |-> Text(Repeat("a", k))])),
     Json(Array(<<Text(Append(Repeat("a", QueryChars), "b")),
                  Text(Append(Repeat("a", QueryChars), "x"))>>))}

\* suggest_subreddits(call.arg) is called, the provider gives response and
\* the set of candidates is iterated in order
SuggestSubreddits(response, order) ==
    /\ call.fn = "suggest_subreddits"
    /\ call.out = Null
    /\ order \in IterationOrders(Candidates(Items(response)))
    /\ call' = [call EXCEPT !.out =
                  Some([response |-> response,
                        value |-> suggest_subreddits(call.arg, response, order)])]
    /\ UNCHANGED <<ivars, cvars, fbvars, dc>>

\* suggest_reddit_queries(call.arg) is called and the provider gives response
SuggestRedditQueries(response) ==
    /\ call.fn = "suggest_reddit_queries"
    /\ call.out = Null
    /\ call' = [call EXCEPT !.out =
                  Some([response |-> response,
                        value |-> suggest_reddit_queries(response)])]
    /\ UNCHANGED <<ivars, cvars, fbvars, dc>>

(* app/utils/openai_parser.py: parse_summary_payload.  A payload is a     *)
(* record of its three keys, each absent (Null) or a JSON value.           *)

\* delights[:5] and pain_points[:5]
SummaryLimit == 5

\* list(value) raises TypeError: the value is not iterable
NotIterable(value) == value.kind \in {"null", "number"}

\* the keys of a JSON object in some order (dict order, which is the order of
\* the document; the objects of the model have at most one key)
RECURSIVE KeysOf(_)
KeysOf(keys) ==
    IF keys = {} THEN <<>>
    ELSE LET key == CHOOSE x \in keys : TRUE
         IN  <<Text(key)>> \o KeysOf(keys \ {key})

\* list(value) for an iterable value: the items of an array, the characters
\* of a string, the keys of an object
list(value) ==
    CASE value.kind = "array" -> value.items
      [] value.kind = "string" -> [k \in 1..Len(value.s) |-> Text(<<value.s[k]>>)]
      [] value.kind = "object" -> KeysOf(DOMAIN value.items)

\* payload.get(key, [])
GetList(payload, key) == IF payload[key] = Null THEN Array(<<>>) ELSE payload[key][1]

\* parse_summary_payload raises OpenAIParseError: the payload is no object,
\* has no "overall", or a list is not iterable
SummaryRaises(payload) ==
    \/ ~IsObject(payload)
    \/ payload.overall = Null
    \/ NotIterable(GetList(payload, "delights"))
    \/ NotIterable(GetList(payload, "pain_points"))

\* a parser that keeps the last five entries
parse_summary_payload_last(payload) ==
    LET last(seq) == SubSeq(seq, IF Len(seq) > SummaryLimit
                                 THEN Len(seq) - SummaryLimit + 1 ELSE 1, Len(seq))
    IN  [overall |-> str(payload.overall[1]),
         delights |-> last(list(GetList(payload, "delights"))),
         pain_points |-> last(list(GetList(payload, "pain_points")))]

\* parse_summary_payload(payload) when it returns
parse_summary_payload(payload) ==
    [overall |-> str(payload.overall[1]),
     delights |-> Take(list(GetList(payload, "delights")), SummaryLimit),
     pain_points |-> Take(list(GetList(payload, "pain_points")), SummaryLimit)]

\* [str(i) for i in range(n)]
Digits == <<"0", "1", "2", "3", "4", "5", "6", "7", "8", "9">>

StrRange(n) == [k \in 1..n |-> Text(<<Digits[k]>>)]

\* what the provider may give under "delights" and "pain_points": nothing,
\* null, a number, a string, an object, and lists of up to MaxEntries
\* entries, ascending, descending, or with entries of several kinds
SummaryLists ==
    {Null, Some(JsonNull), Some(Number(1, 1)),
     Some(Text(<<"a", "b", "a", "b", "x", "x">>)),
     Some(Object([key \in {<<"a">>} |-> JsonNull])),
     Some(Array(Reversed(StrRange(MaxEntries)))),
     Some(Array(<<Text(<<"a">>), JsonNull, Text(<<"a">>), Number(1, 2),
                  Array(<<>>), Text(<<"b">>)>>))}
    \cup {Some(Array(StrRange(n))) : n \in 0..MaxEntries}

SummaryInputs ==
    {JsonArray}
    \cup {[overall |-> overall, delights |-> delights, pain_points |-> pain_points] :
            overall \in {Null, Some(Text(<<"G", "o", "o", "d">>)), Some(JsonNull)},
            delights \in SummaryLists, pain_points \in SummaryLists}

\* parse_summary_payload(call.arg)
ParseSummary ==
    /\ call.fn = "parse_summary_payload"
    /\ call.out = Null
    /\ call' = [call EXCEPT !.out =
                  Some([raised |-> IF SummaryRaises(call.arg) THEN "OpenAIParseError"
                                   ELSE "none",
                        value |-> IF SummaryRaises(call.arg) THEN Null
                                  ELSE Some(parse_summary_payload(call.arg))])]
    /\ UNCHANGED <<ivars, cvars, fbvars, dc>>

---------------------------------------------------------------------------
\* the services at rest
IngestionAtRest ==
    /\ run = [r \in Tasks |-> IdleRun]
    /\ hist = [r \in Tasks |-> NoHist]
    /\ nruns = 0
    /\ ndeliv = 0
    /\ nfail = 0

ClassificationAtRest ==
    /\ cl = [t \in ClsTasks |-> IdleCls]
    /\ ncls = 0
    /\ gw = NoCall

FallbackAtRest ==
    /\ fbTexts = <<>>
    /\ fbScores = <<>>
    /\ fbResults = Null

DiscoveryAtRest == dc = IdleDisc

\* no call of a stateless function is under way
CallAtRest == call = [fn |-> "none", arg |-> <<>>, out |-> Null]

\* the application after startup with an empty database
Init ==
    /\ store = EmptyTables
    /\ IngestionAtRest
    /\ ClassificationAtRest
    /\ FallbackAtRest
    /\ DiscoveryAtRest
    /\ CallAtRest
    /\ backoffLib \in BOOLEAN
    /\ vaderLib = FALSE
    /\ wv = WeaviateService("", FALSE)

\* one ingestion task: run_once invocations one after the other
Next ==
    \/ \E ps \in ProductLists : RunOnce(1, ps)
    \/ BeginAttempt(1)
    \/ \E i \in ItemIds : DeliverItem(1, i)
    \/ SkipVideo(1)
    \/ \E c \in CommentIds, raw \in RawBodies : DeliverComment(1, c, raw)
    \/ FetchRaises(1)
    \/ EndOfFeed(1)
    \/ Flush(1)

Spec == Init /\ [][Next]_vars

\* two ingestion tasks (two processes, or two requests of one process) whose
\* database statements interleave; the platform APIs answer every call
NextRace ==
    \/ \E r \in Tasks, ps \in ProductLists : RunOnce(r, ps)
    \/ \E r \in Tasks : BeginAttempt(r)
    \/ \E r \in Tasks, i \in ItemIds : DeliverItem(r, i)
    \/ \E r \in Tasks, c \in CommentIds, raw \in RawBodies : DeliverComment(r, c, raw)
    \/ \E r \in Tasks : EndOfFeed(r)
    \/ \E r \in Tasks : Flush(r)

SpecRace == Init /\ [][NextRace]_vars

\* the application after startup with ingested, unclassified comments
InitClassify ==
    /\ store = [sources |-> {SourceChannel("reddit", "ch1")},
                contents |-> {ContentItem("reddit", "i1", "p1",
                                          AuthorColumn("reddit", AuthorOfItem("i1")),
                                          "ch1")},
                comments |-> StoredComments]
    /\ IngestionAtRest
    /\ ClassificationAtRest
    /\ FallbackAtRest
    /\ DiscoveryAtRest
    /\ CallAtRest
    /\ backoffLib \in BOOLEAN
    /\ vaderLib \in BOOLEAN
    /\ wv \in {WeaviateService("", TRUE), WeaviateService("http://weaviate", TRUE),
               WeaviateService("http://weaviate", FALSE)}

\* one classification task: run_pending invocations one after the other, while
\* the vector store goes down and comes back
NextClassify ==
    \/ \E ids \in IdArgs : RunPending(1, ids)
    \/ \E data \in ProviderArrays(Batch(1)) : ClassifyReturns(1, data)
    \/ ClassifyInvalidJson(1)
    \/ ClassifyApiError(1)
    \/ \E m \in ProviderVectors(Batch(1)) : EmbedReturns(1, m)
    \/ EmbedRaises(1)
    \/ WriteComment(1)
    \/ Finish(1)
    \/ ReachabilityChanges

SpecClassify == InitClassify /\ [][NextClassify]_vars

\* two requests to /classify in one event loop, the providers answering well
\* and the vector store configured and reachable
InitPair ==
    /\ InitClassify
    /\ backoffLib = TRUE
    /\ vaderLib = FALSE
    /\ wv = WeaviateService("http://weaviate", TRUE)

\* the arrays of a provider that answers every text alike, with a valid item
UniformArrays(n) == {[k \in 1..n |-> p] : p \in {q \in Payloads : ~ParseRaises(q)}}

\* task t may take a step: the other coroutine is not inside the loop of
\* run_pending, which has no await between its first pass and the commit
Turn(t) == \A u \in ClsTasks \ {t} : cl[u].pc # "write"

NextPair ==
    \/ \E t \in ClsTasks, ids \in {Null, Some({1})} : Turn(t) /\ RunPending(t, ids)
    \/ \E t \in ClsTasks :
          Turn(t) /\ \E data \in UniformArrays(Batch(t)) : ClassifyReturns(t, data)
    \/ \E t \in ClsTasks : Turn(t) /\ EmbedReturns(t, Batch(t))
    \/ \E t \in ClsTasks : Turn(t) /\ WriteComment(t)
    \/ \E t \in ClsTasks : Turn(t) /\ Finish(t)

SpecPair == InitPair /\ [][NextPair]_vars

\* the steps the classification service takes in repeated runs of
\* scripts/run_classify.py
ServiceStep ==
    \/ RunPendingAgain(1)
    \/ \E data \in ProviderArrays(Batch(1)) : ClassifyReturns(1, data)
    \/ ClassifyInvalidJson(1)
    \/ ClassifyApiError(1)
    \/ \E m \in ProviderVectors(Batch(1)) : EmbedReturns(1, m)
    \/ EmbedRaises(1)
    \/ WriteComment(1)
    \/ Finish(1)

NextHeal == ServiceStep \/ Outage

\* the script is run again and again and every awaited call returns or raises;
\* nothing is assumed of the vector store
SpecHeal == InitClassify /\ [][NextHeal]_vars /\ WF_vars(ServiceStep)

\* the gateway alone, constructed under any configuration
InitGateway ==
    /\ store = EmptyTables
    /\ IngestionAtRest
    /\ ClassificationAtRest
    /\ FallbackAtRest
    /\ DiscoveryAtRest
    /\ CallAtRest
    /\ backoffLib = TRUE
    /\ vaderLib = FALSE
    /\ \E e \in Endpoints, r \in BOOLEAN : wv = WeaviateService(e, r)

NextGateway ==
    \/ \E uuid \in UpsertIds(wv), vector \in Vectors : GatewayUpsert(uuid, vector)
    \/ \E vector \in Vectors, limit \in Limits : GatewaySearch(vector, limit)
    \/ ReachabilityChanges

SpecGateway == InitGateway /\ [][NextGateway]_vars

\* the fallback scorer alone, given any batch
InitFallback ==
    /\ store = EmptyTables
    /\ IngestionAtRest
    /\ ClassificationAtRest
    /\ backoffLib = TRUE
    /\ vaderLib \in BOOLEAN
    /\ wv = WeaviateService("", FALSE)
    /\ fbTexts \in TextBatches
    /\ fbScores = <<>>
    /\ fbResults = Null
    /\ DiscoveryAtRest
    /\ CallAtRest

NextFallback ==
    \E scores \in AnalyzerScores(fbTexts) : Fallback(scores)

SpecFallback == InitFallback /\ [][NextFallback]_vars

\* channel discovery alone: discover_reddit called again and again
InitDiscovery ==
    /\ store = EmptyTables
    /\ IngestionAtRest
    /\ ClassificationAtRest
    /\ FallbackAtRest
    /\ DiscoveryAtRest
    /\ CallAtRest
    /\ backoffLib = TRUE
    /\ vaderLib = FALSE
    /\ wv = WeaviateService("", FALSE)

NextDiscovery ==
    \/ Discover
    \/ \E suggested \in SubredditLists : SuggestSubredditsReturns(suggested)
    \/ SuggestSubredditsRaises
    \/ \E posts \in NewPosts, raised \in BOOLEAN : Measure(posts, raised)
    \/ \E queries \in QueryLists : SuggestQueriesReturns(queries)
    \/ SuggestQueriesRaises
    \/ \E submissions \in SearchListings, raised \in BOOLEAN :
          Search(submissions, raised)
    \/ Rank

SpecDiscovery == InitDiscovery /\ [][NextDiscovery]_vars

\* the services at rest, but for the call of a stateless function
InitCall(fn, args) ==
    /\ store = EmptyTables
    /\ IngestionAtRest
    /\ ClassificationAtRest
    /\ FallbackAtRest
    /\ DiscoveryAtRest
    /\ backoffLib = TRUE
    /\ vaderLib = FALSE
    /\ wv = WeaviateService("", FALSE)
    /\ call \in {[fn |-> fn, arg |-> a, out |-> Null] : a \in args}

\* the parser alone, given any item
InitParser == InitCall("parse_sentiment_payload", ParserInputs)

NextParser == Parse

SpecParser == InitParser /\ [][NextParser]_vars

\* the pieces of a text: a space, a tab, a lowercase and an uppercase letter, a
\* URL in lowercase and one in uppercase
TextPieces ==
    {<<" ">>, <<"\t">>, <<"a">>, <<"B">>,
     <<"h", "t", "t", "p", ":", "/", "/", "x">>,
     <<"H", "T", "T", "P", "S", ":", "/", "/", "X">>}

RECURSIVE Concat(_)
Concat(pieces) ==
    IF pieces = <<>> THEN <<>> ELSE Head(pieces) \o Concat(Tail(pieces))

RawTexts == {Concat(ps) : ps \in UNION {[1..n -> TextPieces] : n \in 0..MaxTokens}}

\* normalize_text(call.arg) is called
Normalize ==
    /\ call.fn = "normalize_text"
    /\ call.out = Null
    /\ call' = [call EXCEPT !.out = Some(normalize_text(call.arg))]
    /\ UNCHANGED <<ivars, cvars, fbvars, dc>>

\* normalize_text alone, given any text
InitNormalize == InitCall("normalize_text", RawTexts)

NextNormalize == Normalize

SpecNormalize == InitNormalize /\ [][NextNormalize]_vars

\* generate_aliases alone, given any products and any answer of the provider
InitAliases == InitCall("generate_aliases", AliasProductLists)

NextAliases == \E response \in AliasResponses : GenerateAliases(response)

SpecAliases == InitAliases /\ [][NextAliases]_vars

\* the summary parser alone, given any payload
InitSummary == InitCall("parse_summary_payload", SummaryInputs)

NextSummary == ParseSummary

SpecSummary == InitSummary /\ [][NextSummary]_vars

\* the two suggest functions alone, given any products, any answer of the
\* provider and any iteration order of the set of candidates
InitSuggest ==
    \/ InitCall("suggest_subreddits", SuggestProducts)
    \/ InitCall("suggest_reddit_queries", SuggestProducts)

NextSuggest ==
    \/ \E response \in SuggestResponses :
          \E order \in IterationOrders(Candidates(Items(response))) :
             SuggestSubreddits(response, order)
    \/ \E response \in SuggestResponses : SuggestRedditQueries(response)

SpecSuggest == InitSuggest /\ [][NextSuggest]_vars

---------------------------------------------------------------------------
(* Properties of the ingestion engine *)

UniqueKeys(st) ==
    /\ Cardinality(SourceKeys(st.sources)) = Cardinality(st.sources)
    /\ Cardinality(ItemKeys(st.contents)) = Cardinality(st.contents)
    /\ Cardinality(CommentKeys(st.comments)) = Cardinality(st.comments)

AllPairs(ps) == {<<pf, ps[k]>> : pf \in Platforms, k \in 1..Len(ps)}

Ended(r) == run[r].pc \in {"done", "failed"}

\* C1: a comment delivered twice within one run, with no platform failure and no
\* concurrent writer, leaves the run completing without error (and, the keys
\* being unique, with one row for the comment).
C1_DuplicateDeliveryCompletes ==
    \A r \in Tasks :
        (hist[r].dup /\ ~hist[r].extFail /\ ~hist[r].raceLost)
            => /\ run[r].pc # "failed"
               /\ UniqueKeys(store)

\* C2: ingesting again never adds a second row for a committed (platform,
\* native id) pair and never changes or removes a committed row: every row of
\* the store is in the store, field for field, after every step.
C2_ReingestKeepsFirstRow ==
    [][ /\ store.sources \subseteq store'.sources
        /\ store.contents \subseteq store'.contents
        /\ store.comments \subseteq store'.comments
        /\ UniqueKeys(store') ]_vars

\* a later run has met a committed item under another product and a committed
\* comment under another product and body, and has committed again
C2_Witness ==
    /\ nruns = 2
    /\ run[1].pc = "done"
    /\ hist[1].kept
    /\ \E x \in store.contents : x.product = "p1"
    /\ \E x \in store.comments : x.product = "p1"

\* C3: once a product's fetch on one source has failed on all 3 attempts, the
\* run still goes through every other product/source pair and does not fail.
C3_ExhaustedFetchSkipsOnlyThatPair ==
    \A r \in Tasks :
        (Ended(r) /\ \E e \in hist[r].exhausted : e[3] = max_tries)
            => /\ hist[r].visited = AllPairs(run[r].products)
               /\ run[r].pc = "done"

\* C8: the run that loses the race on a unique key does not fail.
C8_RaceLoserDoesNotFail ==
    \A r \in Tasks :
        (hist[r].raceLost /\ ~hist[r].dup) => run[r].pc # "failed"

---------------------------------------------------------------------------
(* Properties of the classification orchestrator *)

Unset(x) ==
    /\ x.sentiment = Null
    /\ x.sentiment_confidence = Null
    /\ x.aspects = Null
    /\ x.weaviate_uuid = Null

AllSet(x) ==
    /\ x.sentiment # Null
    /\ x.sentiment_confidence # Null
    /\ x.aspects # Null
    /\ x.weaviate_uuid # Null

Row(id) == CHOOSE x \in store.comments : x.id = id

\* C4: in every committed state a comment is processed exactly when its
\* sentiment, confidence, aspects and vector identity are set: a processed row
\* has all four, an unprocessed row has none.
C4_ProcessedIffClassified ==
    \A x \in store.comments :
        /\ x.processed => AllSet(x)
        /\ ~x.processed => Unset(x)

\* a run has committed a classified comment, and the next run has failed in
\* the vector upsert after assigning the sentiment of another comment
C4_Witness ==
    /\ cl[1].pc = "failed"
    /\ cl[1].cause = "upsert"
    /\ cl[1].comments[cl[1].k].sentiment # Null
    /\ \E x \in store.comments : x.processed
    /\ \E x \in store.comments : ~x.processed

\* C5: when the vector upsert raises for the k-th comment of a batch, what was
\* written for comments 1..k-1 is committed, and comments k and later are
\* committed unprocessed.
C5_EarlierWritesStayCommitted ==
    \A t \in ClsTasks :
        (cl[t].pc = "failed" /\ cl[t].cause = "upsert")
            => /\ \A j \in 1..(cl[t].k - 1) :
                     /\ Row(cl[t].comments[j].id).processed
                     /\ AllSet(Row(cl[t].comments[j].id))
               /\ \A j \in cl[t].k..Len(cl[t].comments) :
                     ~Row(cl[t].comments[j].id).processed

---------------------------------------------------------------------------
(* Properties of the fallback scorer *)

HasWord(text, words) == SeqRange(Split(Lower(text))) \cap words # {}

ThresholdRule(texts, scores, results) ==
    /\ Len(results) = Len(texts)
    /\ \A k \in 1..Len(texts) :
          /\ results[k].sentiment =
                (IF FracGeq(scores[k], PositiveFrom) THEN "positive"
                 ELSE IF FracLeq(scores[k], NegativeFrom) THEN "negative"
                 ELSE "neutral")
          /\ results[k].confidence.num * scores[k].den
                = Abs(scores[k].num) * results[k].confidence.den
          /\ results[k].aspects = <<>>
          /\ results[k].fallback = TRUE

\* C7 as stated: one result per text in order by the threshold rule, so that
\* with the repository's lexicon analyzer a text with a positive lexicon word
\* is positive, one with a negative lexicon word is negative, and the empty
\* text is neutral.
C7_LexiconWordDecides ==
    fbResults # Null
        => /\ ThresholdRule(fbTexts, fbScores, fbResults[1])
           /\ ~vaderLib =>
                \A k \in 1..Len(fbTexts) :
                    /\ HasWord(fbTexts[k], POSITIVE)
                          => fbResults[1][k].sentiment = "positive"
                    /\ HasWord(fbTexts[k], NEGATIVE)
                          => fbResults[1][k].sentiment = "negative"
                    /\ fbTexts[k] = <<>> => fbResults[1][k].sentiment = "neutral"

ILoveThisPhone == <<"I", " ", "l", "o", "v", "e", " ", "t", "h", "i", "s", " ", "p", "h", "o", "n", "e">>
IHateTheBattery == <<"I", " ", "h", "a", "t", "e", " ", "t", "h", "e", " ", "b", "a", "t", "t", "e", "r", "y">>

\* C7, amended: one result per text in order by the threshold rule on the
\* analyzer's compound score (confidence its absolute value, aspects empty,
\* fallback true); with the repository's lexicon analyzer "I love this phone"
\* is positive and "I hate the battery" is negative, and the empty text is
\* neutral under either analyzer.
C7_ThresholdRule ==
    fbResults # Null
        => /\ ThresholdRule(fbTexts, fbScores, fbResults[1])
           /\ \A k \in 1..Len(fbTexts) :
                 /\ (~vaderLib /\ fbTexts[k] = ILoveThisPhone)
                       => fbResults[1][k].sentiment = "positive"
                 /\ (~vaderLib /\ fbTexts[k] = IHateTheBattery)
                       => fbResults[1][k].sentiment = "negative"
                 /\ fbTexts[k] = <<>> => fbResults[1][k].sentiment = "neutral"

\* the scorer has answered a batch of two whose first text has a positive
\* lexicon word and is scored neutral
C7_Witness ==
    /\ fbResults # Null
    /\ ~vaderLib
    /\ Len(fbTexts) = 2
    /\ HasWord(fbTexts[1], POSITIVE)
    /\ fbResults[1][1].sentiment = "neutral"
    /\ fbTexts[2] = <<>>

---------------------------------------------------------------------------
(* Properties of the vector index gateway *)

Unconfigured == wv.endpoint \in {"", "your_weaviate_endpoint_here"}

\* the last call returned the safe default: an identity and no write for an
\* upsert, the empty list for a search
SafeDefault ==
    /\ ~gw.raised
    /\ gw.op = "upsert" => /\ gw.uuid # Null
                           /\ gw.given # Null => gw.uuid = gw.given
                           /\ wv.objects = gw.before
    /\ gw.op = "search" => gw.results = <<>>

\* C9: with no endpoint configured, every upsert returns an identity without
\* raising and without writing, and every search returns the empty list
\* without raising.
C9_UnconfiguredIsSafe ==
    (Unconfigured /\ gw.op # "none") => SafeDefault /\ wv.objects = {}

\* an upsert without an id has returned the placeholder identity
C9_Witness ==
    /\ wv.endpoint = ""
    /\ gw.op = "upsert"
    /\ gw.given = Null
    /\ gw.uuid = Some(MockUuid)

\* C10: a call made while the store is unconfigured or unreachable returns the
\* safe default, whether the store was unreachable at construction or became
\* unreachable afterwards.
C10_UnreachableIsSafe ==
    (gw.op # "none" /\ (Unconfigured \/ ~gw.reachable)) => SafeDefault

Uuids(objs) == {o.uuid : o \in objs}

\* the last call was an upsert through a connected client to a reachable store
AvailableUpsert == gw.op = "upsert" /\ wv.client /\ gw.reachable

---------------------------------------------------------------------------
(* Properties of the selection, the retries and the order of run_pending *)

\* C12: a step of run_pending changes a committed comment only if it was
\* unprocessed and, when a collection of ids was supplied (an empty one
\* included), only if its id is in that collection.
C12_OnlySelectedChange ==
    [][ \A t \in ClsTasks : \A x \in store.comments :
            x \notin store'.comments
                => /\ ~x.processed
                   /\ cl[t].ids # Null => x.id \in cl[t].ids[1] ]_vars

\* the step is classify receiving a malformed response: text that is not JSON,
\* or an array with an item parse_sentiment_payload rejects
MalformedResponse(t) ==
    \/ ClassifyInvalidJson(t)
    \/ \E data \in ProviderArrays(Batch(t)) :
          /\ \E k \in 1..Len(data) : ParseRaises(data[k])
          /\ ClassifyReturns(t, data)

\* C13: a malformed provider response is not retried: the step that receives
\* it takes run_pending straight to the fallback scorer's results, with no
\* further provider call for the batch.
C13_MalformedNotRetried ==
    [][ \A t \in ClsTasks :
            MalformedResponse(t)
                => /\ cl'[t].pc = "embed"
                   /\ cl'[t].why \in {"json", "parse"} ]_vars

AllProcessed == \A x \in store.comments : x.processed

\* no run has ended in a failed embed or upsert, and embed has returned one
\* vector per text
VectorCallsSucceed ==
    \A t \in ClsTasks :
        /\ cl[t].pc # "failed"
        /\ cl[t].pc \in {"write", "done"}
              => Len(cl[t].embeddings) = Len(cl[t].comments)

\* C15: if from some point on the embedding and vector-upsert calls succeed,
\* repeated invocations of run_pending() eventually leave every stored comment
\* processed.
C15_EventuallyAllProcessed == <>[]VectorCallsSucceed => <>[]AllProcessed

\* the entry of the vector index a written comment points to
EntryOf(comment) ==
    CHOOSE o \in wv.objects : o.uuid = comment.weaviate_uuid[1]

\* C16: while run_pending writes, and when it is done, the comments before the
\* loop's position hold, each at its own position, the classification result
\* of that position and (with a connected gateway) an index entry with the
\* vector computed for that comment's body and that comment's id and text; the
\* entries were inserted in selection order; the comments from the loop's
\* position on are untouched.
C16_PositionalWrites ==
    \A t \in ClsTasks :
        cl[t].pc \in {"write", "done"} =>
            /\ \A j \in 1..(cl[t].k - 1) :
                  /\ cl[t].comments[j].processed
                  /\ cl[t].comments[j].sentiment = Some(cl[t].sentiments[j].sentiment)
                  /\ cl[t].comments[j].sentiment_confidence
                        = Some(IntPercent(cl[t].sentiments[j].confidence))
                  /\ cl[t].comments[j].aspects = Some(cl[t].sentiments[j].aspects)
                  /\ cl[t].comments[j].weaviate_uuid # Null
                  /\ wv.client =>
                        /\ \E o \in wv.objects : o.uuid = cl[t].comments[j].weaviate_uuid[1]
                        /\ EntryOf(cl[t].comments[j]).vector = Embedding(Bodies(cl[t]), j)
                        /\ EntryOf(cl[t].comments[j]).properties.comment_id
                              = cl[t].comments[j].id
                        /\ EntryOf(cl[t].comments[j]).properties.text
                              = cl[t].comments[j].body
                        /\ EntryOf(cl[t].comments[j]).properties.sentiment
                              = cl[t].sentiments[j].sentiment
                        /\ \A i \in 1..(j - 1) :
                              cl[t].comments[i].weaviate_uuid[1][2]
                                 < cl[t].comments[j].weaviate_uuid[1][2]
            /\ \A j \in {i \in 1..Len(cl[t].comments) : i >= cl[t].k} :
                  ~cl[t].comments[j].processed /\ Unset(cl[t].comments[j])

\* a run over two comments with different results has written both through a
\* connected gateway
C16_Witness ==
    /\ cl[1].pc = "done"
    /\ wv.client
    /\ Len(cl[1].comments) = 2
    /\ cl[1].k = 3
    /\ cl[1].sentiments[1].sentiment # cl[1].sentiments[2].sentiment
    /\ Cardinality(wv.objects) = 2

---------------------------------------------------------------------------
(* Properties of the unit of work of get_session *)

\* the step in which task r leaves the with-block of _ingest_<platform> after
\* its body has returned and the commit has succeeded
LeavesCleanly(r) ==
    /\ run[r].pc = "flushing"
    /\ run[r].want.after = "commit"
    /\ run'[r].pc \in {"start", "done"}

\* the step in which an exception of the body, or of the commit, passes through
\* the with-block of task r
LeavesRaising(r) == run[r].pc # "failed" /\ run'[r].pc = "failed"

\* C17: get_session commits exactly once when its body exits cleanly (the store
\* takes the rows of the session in that one step and in no other), rolls back
\* and re-raises when the body or the commit raises (the store is left as it
\* was: nothing the body has flushed becomes visible), and closes the session
\* in every outcome (the task holds a new, empty session afterwards).
C17_UnitOfWork ==
    [][\A r \in Tasks :
          /\ LeavesCleanly(r) =>
                /\ store' = CommitTables(store, Flushed(run[r]))
                /\ run'[r].sess = SessionLocal
          /\ LeavesRaising(r) =>
                /\ store' = store
                /\ run'[r].sess = SessionLocal
          /\ store' # store => \E q \in Tasks : LeavesCleanly(q)]_vars

\* the first run has failed in its first with-block after the platform had
\* delivered items that the body flushed: the store holds none of them
C17_Witness ==
    /\ run[1].pc = "failed"
    /\ run[1].phase = "reddit"
    /\ nruns = 1
    /\ ndeliv >= 1
    /\ hist[1].extFail
    /\ store = EmptyTables

---------------------------------------------------------------------------
(* Properties of channel discovery *)

ItemOf(items, cid) == items[PositionOf(items, cid)]

SameScore(x, y) == ~FracGt(x.score, y.score) /\ ~FracGt(y.score, x.score)

\* C18: merging the two candidate sets keeps, for each channel id, the entry
\* with the strictly higher score; when both sets hold the channel with equal
\* scores the entry of the suggested-subreddit set, seen first, is kept; and
\* every channel of either set is in the merged result exactly once.
C18_MergeKeepsHigher ==
    dc.pc = "returned" =>
        LET a == dc.a_results
            b == dc.b_results
        IN  /\ ChannelIds(dc.merged) = ChannelIds(a) \cup ChannelIds(b)
            /\ Cardinality(ChannelIds(dc.merged)) = Len(dc.merged)
            /\ \A cid \in ChannelIds(dc.merged) :
                  ItemOf(dc.merged, cid) =
                      IF cid \notin ChannelIds(b) THEN ItemOf(a, cid)
                      ELSE IF cid \notin ChannelIds(a) THEN ItemOf(b, cid)
                      ELSE IF FracGt(ItemOf(b, cid).score, ItemOf(a, cid).score)
                           THEN ItemOf(b, cid)
                           ELSE ItemOf(a, cid)

\* both strategies have found one channel with equal scores, and the merged
\* result also holds channels only one of them found
C18_Witness ==
    /\ dc.pc = "returned"
    /\ \E cid \in ChannelIds(dc.a_results) \cap ChannelIds(dc.b_results) :
          /\ SameScore(ItemOf(dc.a_results, cid), ItemOf(dc.b_results, cid))
          /\ ItemOf(dc.merged, cid).via = "a"
    /\ ChannelIds(dc.a_results) \ ChannelIds(dc.b_results) # {}
    /\ ChannelIds(dc.b_results) \ ChannelIds(dc.a_results) # {}

\* every channel a strategy has scored, before any list is cut
AllScored == SeqRange(ScoredAll(dc.results, "a")) \cup SeqRange(ScoredAll(dc.aggregated, "b"))

\* C19: discover_reddit returns at most 20 channels, sorted by score in
\* non-increasing order, and no channel left out of the result has a higher
\* score than a channel in it.
C19_TopTwentyByScore ==
    dc.pc = "returned" =>
        LET ranked == dc.ret[1]
        IN  /\ Len(ranked) <= 20
            /\ \A j, k \in 1..Len(ranked) :
                  j < k => ~FracGt(ranked[k].score, ranked[j].score)
            /\ \A x \in AllScored :
                  x.channel_id \notin ChannelIds(ranked) =>
                      \A k \in 1..Len(ranked) : ~FracGt(x.score, ranked[k].score)

\* more than 20 channels were found, by the query strategy alone and after the
\* merge, and the 20 returned do not all have one score
C19_Witness ==
    /\ dc.pc = "returned"
    /\ Len(dc.aggregated) > 20
    /\ Len(dc.merged) > 20
    /\ Len(dc.ret[1]) = 20
    /\ FracGt(dc.ret[1][1].score, dc.ret[1][20].score)
    /\ dc.a_results # <<>>

\* C20: discover_reddit never raises to its caller when the suggestion call, a
\* query search or a subreddit measurement fails: it returns a ranking, the
\* failing query or subreddit has contributed nothing to it, and it is the
\* ranking of what the calls that did not fail have found.
C20_FailuresContributeNothing ==
    dc.pc = "returned" =>
        /\ dc.ret # Null
        /\ dc.a_results = Ranked(ScoredAll(dc.okResults, "a"))
        /\ dc.b_results = Ranked(ScoredAll(dc.okAggregated, "b"))
        /\ dc.ret = Some(Ranked(Merged(Ranked(ScoredAll(dc.okResults, "a")),
                                       Ranked(ScoredAll(dc.okAggregated, "b")))))

---------------------------------------------------------------------------
(* Properties of the channel score *)

\* the submissions counted for the channel of item x by the strategy of x
PostsOf(x) ==
    {p \in BagToSet(dc.posts) : p.channel_id = x.channel_id /\ p.via = x.via}

RECURSIVE SumOver(_, _)
SumOver(ps, field) ==
    IF ps = {} THEN 0
    ELSE LET p == CHOOSE q \in ps : TRUE
         IN  CopiesIn(p, dc.posts) * (IF field = "score" THEN p.score
                                      ELSE IF field = "num_comments" THEN p.num_comments
                                      ELSE 1)
             + SumOver(ps \ {p}, field)

\* C21: for every channel either strategy returns, score = mentions * 0.6 +
\* avg_item_score * 0.2 + comment_count * 0.2, where mentions is the number of
\* the items counted for the channel, comment_count the sum of their comment
\* counts and avg_item_score the sum of their native scores divided by
\* max(mentions, 1); no denominator is zero.
C21_ScoreFormula ==
    \A x \in SeqRange(dc.a_results) \cup SeqRange(dc.b_results) :
        LET mentions == SumOver(PostsOf(x), "mentions")
            total == SumOver(PostsOf(x), "score")
            comment_count == SumOver(PostsOf(x), "num_comments")
            floor == IF mentions > 1 THEN mentions ELSE 1
        IN  /\ x.mentions = mentions
            /\ x.comments = comment_count
            /\ x.avg_score.den > 0
            /\ x.score.den > 0
            /\ x.avg_score.num * floor = total * x.avg_score.den
            /\ x.score.num * 10 * floor
                  = (6 * mentions * floor + 2 * total + 2 * comment_count * floor)
                    * x.score.den

\* both strategies have returned channels, one of them counted for several
\* items whose native scores are not all zero
C21_Witness ==
    /\ dc.pc = "returned"
    /\ dc.a_results # <<>>
    /\ \E x \in SeqRange(dc.b_results) : x.mentions >= 2 /\ x.avg_score.num > 0

---------------------------------------------------------------------------
(* Properties of parse_sentiment_payload *)

Parsed == call.fn = "parse_sentiment_payload" /\ call.out # Null

\* the nine keys of the aspect vocabulary
Vocabulary == {"price", "battery", "camera", "performance", "design",
               "availability", "software", "support", "other"}

\* the item has an aspects mapping (or none at all)
HasAspectMapping(payload) ==
    /\ IsObject(payload)
    /\ payload.aspects # Null => payload.aspects[1].kind = "object"

AspectsOf(payload) ==
    IF payload.aspects = Null THEN <<>> ELSE payload.aspects[1].items

\* the item without the aspect keys that are not in the vocabulary
WithoutUnknownKeys(payload) ==
    IF payload.aspects = Null THEN payload
    ELSE [payload EXCEPT !.aspects =
            Some(Object([a \in DOMAIN AspectsOf(payload) \cap Vocabulary |->
                           AspectsOf(payload)[a]]))]

\* C22: parse_sentiment_payload drops every aspect key that is not one of the
\* nine vocabulary keys, keeps every vocabulary key with its label, and never
\* raises because of an unknown key (it raises exactly when it raises for the
\* item without its unknown keys).
C22_UnknownAspectsDropped ==
    (Parsed /\ HasAspectMapping(call.arg)) =>
        LET out == call.out[1]
            given == AspectsOf(call.arg)
        IN  /\ out.raised = ParseException(WithoutUnknownKeys(call.arg))
            /\ out.raised = "none" =>
                  /\ DOMAIN out.value[1].aspects = DOMAIN given \cap Vocabulary
                  /\ \A a \in DOMAIN given \cap Vocabulary :
                        given[a].kind = "string" =>
                            out.value[1].aspects[a] = given[a].s

\* an item with a vocabulary key and an unknown key has been parsed
C22_Witness ==
    /\ Parsed
    /\ HasAspectMapping(call.arg)
    /\ call.out[1].raised = "none"
    /\ DOMAIN AspectsOf(call.arg) \cap Vocabulary # {}
    /\ DOMAIN AspectsOf(call.arg) \ Vocabulary # {}

\* the item violates the schema: it is not an object, lacks one of the three
\* fields, has a confidence that is no number, or a sentiment outside the set
SchemaViolation(payload) ==
    \/ ~IsObject(payload)
    \/ payload.sentiment = Null
    \/ payload.confidence = Null
    \/ payload.aspects = Null
    \/ payload.confidence[1].kind # "number"
    \/ payload.sentiment[1].kind # "string"
    \/ payload.sentiment[1].s \notin {"positive", "neutral", "negative"}

\* C23: parse_sentiment_payload raises OpenAIParseError for any item that lacks
\* one of sentiment, confidence, aspects, has an unparseable confidence or a
\* sentiment outside {positive, neutral, negative}, and raises no other kind of
\* exception for a malformed item.
C23_SchemaViolationsRaiseParseError ==
    Parsed =>
        /\ SchemaViolation(call.arg) => call.out[1].raised = "OpenAIParseError"
        /\ call.out[1].raised \in {"none", "OpenAIParseError"}

---------------------------------------------------------------------------
(* Properties of the stored confidence *)

\* C24: every processed comment's sentiment_confidence is an integer between 0
\* and 100 inclusive, whether the classifier or the fallback produced it.
C24_ConfidenceIsPercent ==
    \A x \in store.comments :
        x.processed =>
            /\ x.sentiment_confidence # Null
            /\ x.sentiment_confidence[1] \in 0..100

---------------------------------------------------------------------------
(* Properties of normalize_text *)

Normalized == call.fn = "normalize_text" /\ call.out # Null

\* C25: normalize_text is idempotent: normalize_text(normalize_text(x)) equals
\* normalize_text(x) for every text x.
C25_NormalizeIdempotent ==
    Normalized => normalize_text(call.out[1]) = call.out[1]

Uppercase == {"A", "B", "G", "H", "I", "L", "P", "S", "T", "X"}

\* the text has http:// or https://, in any case, followed by a character that
\* is no whitespace
HasUrl(text) ==
    \E k \in 1..Len(text) :
        \E scheme \in {<<"h", "t", "t", "p", ":", "/", "/">>,
                       <<"h", "t", "t", "p", "s", ":", "/", "/">>} :
            /\ k + Len(scheme) <= Len(text)
            /\ \A j \in 1..Len(scheme) :
                  text[k + j - 1] \in {scheme[j]} \cup
                      {u \in Uppercase : LowerChar(u) = scheme[j]}
            /\ text[k + Len(scheme)] \notin Whitespace

\* C26: for every text, the output of normalize_text contains no URL, is all
\* lowercase, separates words by single spaces only, and has no leading or
\* trailing whitespace.
C26_NormalizedShape ==
    Normalized =>
        LET out == call.out[1]
        IN  /\ ~HasUrl(out)
            /\ \A k \in 1..Len(out) : out[k] \notin Uppercase
            /\ \A k \in 1..Len(out) : out[k] \in Whitespace => out[k] = " "
            /\ \A k \in 1..(Len(out) - 1) : ~(out[k] = " " /\ out[k + 1] = " ")
            /\ out # <<>> => out[1] \notin Whitespace /\ out[Len(out)] \notin Whitespace

---------------------------------------------------------------------------
(* Properties of the alias helper *)

\* C27: generate_aliases returns, for every requested product, a non-empty
\* alias collection that contains the product, whether the provider succeeds
\* or fails; when the provider fails (its call raises or its text is no JSON)
\* the collection is exactly the product, its lowercase form and its lowercase
\* form without spaces, each once.
C27_AliasesContainProduct ==
    (call.fn = "generate_aliases" /\ call.out # Null) =>
        LET out == call.out[1]
        IN  /\ DOMAIN out.value = SeqRange(call.arg)
            /\ \A product \in SeqRange(call.arg) :
                  /\ out.value[product] # <<>>
                  /\ product \in SeqRange(out.value[product])
                  /\ out.response.kind # "json" =>
                        /\ SeqRange(out.value[product])
                             = {product, Lower(product), RemoveSpaces(Lower(product))}
                        /\ Cardinality(SeqRange(out.value[product]))
                             = Len(out.value[product])

\* the provider has failed for a product with an uppercase letter and a space
C27_Witness ==
    /\ call.fn = "generate_aliases"
    /\ call.out # Null
    /\ call.out[1].response.kind = "raises"
    /\ <<"A", " ", "B">> \in SeqRange(call.arg)
    /\ Len(call.out[1].value[<<"A", " ", "B">>]) = 3

\* the entries of the provider's response as the called function reads them
Entries ==
    IF call.fn = "suggest_subreddits"
    THEN Candidates(Items(call.out[1].response))
    ELSE Queries(Items(call.out[1].response))

Suggested == call.fn \in {"suggest_subreddits", "suggest_reddit_queries"} /\ call.out # Null

FirstAt(entries, entry) == CHOOSE k \in 1..Len(entries) :
    entries[k] = entry /\ \A j \in 1..(k - 1) : entries[j] # entry

\* out holds at most 20 entries of the response, none twice
BoundedAndUnique(out, entries) ==
    /\ Len(out) <= SuggestLimit
    /\ \A i, j \in 1..Len(out) : out[i] = out[j] => i = j
    /\ SeqRange(out) \subseteq SeqRange(entries)

\* out is in the order in which its entries first appear among entries
InFirstSeenOrder(out, entries) ==
    \A i, j \in 1..Len(out) :
        i < j => FirstAt(entries, out[i]) < FirstAt(entries, out[j])

\* C28: suggest_subreddits and suggest_reddit_queries each return at most 20
\* entries, none twice, in the order in which the entries first appear in the
\* provider's response, and the empty list when the provider call or the
\* parsing of its response fails.
C28_SuggestionsInFirstSeenOrder ==
    Suggested =>
        /\ BoundedAndUnique(call.out[1].value, Entries)
        /\ InFirstSeenOrder(call.out[1].value, Entries)
        /\ call.out[1].response.kind # "json" => call.out[1].value = <<>>

---------------------------------------------------------------------------
(* Properties of the author column *)

\* C29: every ContentItem and every Comment whose external record has no
\* author is stored with the author "unknown", on the Reddit and on the
\* YouTube path.
C29_MissingAuthorIsUnknown ==
    /\ \A x \in store.contents :
          AuthorOfItem(x.item_id) = Null => x.author = Some("unknown")
    /\ \A x \in store.comments :
          AuthorOfComment(x.comment_id) = Null => x.author = Some("unknown")

---------------------------------------------------------------------------
(* Properties of a run_pending with nothing to do *)

\* C30: when run_pending finds no unprocessed comment (within the supplied
\* ids, if any) it completes as a no-op: it is done at once, so no classifier,
\* embedding or vector-index call follows, and no row and no object of the
\* index changes.
C30_NothingPendingIsNoOp ==
    [][(ncls' = ncls + 1 /\ cl'[1].comments = <<>>) =>
          /\ cl'[1].pc = "done"
          /\ cl'[1].sentiments = <<>>
          /\ cl'[1].embeddings = <<>>
          /\ store' = store
          /\ wv' = wv
          /\ gw' = gw]_vars

\* a run_pending for one id has found nothing, an earlier run having
\* processed every comment
C30_Witness ==
    /\ ncls >= 2
    /\ cl[1].pc = "done"
    /\ cl[1].ids = Some({1})
    /\ cl[1].comments = <<>>
    /\ \A x \in store.comments : x.processed

---------------------------------------------------------------------------
(* Properties of the summary parser *)

\* the list given under key of the payload, when there is one
GivenList(key) ==
    IF call.arg[key] # Null /\ call.arg[key][1].kind = "array"
    THEN Some(call.arg[key][1].items) ELSE Null

\* out is the first five entries of given, in their order, and the whole of
\* it when it has five or fewer
FirstFive(out, given) ==
    /\ Len(out) <= 5
    /\ Len(out) = IF Len(given) <= 5 THEN Len(given) ELSE 5
    /\ \A k \in 1..Len(out) : out[k] = given[k]

\* C31: parse_summary_payload returns delights and pain_points of at most 5
\* entries each, equal to the first 5 entries of the input lists in their
\* original order, and to the whole list when it has 5 or fewer entries.
C31_SummaryListsTruncated ==
    (call.fn = "parse_summary_payload" /\ call.out # Null /\ call.out[1].value # Null) =>
        \A key \in {"delights", "pain_points"} :
            /\ Len(call.out[1].value[1][key]) <= 5
            /\ GivenList(key) # Null =>
                  FirstFive(call.out[1].value[1][key], GivenList(key)[1])

\* a payload with more than five delights, in descending order, and fewer
\* than five pain points has been parsed
C31_Witness ==
    /\ call.fn = "parse_summary_payload"
    /\ call.out # Null
    /\ call.out[1].value # Null
    /\ GivenList("delights") # Null
    /\ Len(GivenList("delights")[1]) > 5
    /\ GivenList("delights")[1][1] # Text(<<"0">>)
    /\ Len(call.out[1].value[1].delights) = 5
    /\ Len(call.out[1].value[1].pain_points) = 3

---------------------------------------------------------------------------
(* Properties of the vector index as a projection of the comments *)

\* no run_pending is under way
ClassificationQuiet == \A t \in ClsTasks : cl[t].pc \in {"idle", "done", "failed"}

\* the entries of the index written for comment x
EntriesOf(x) == {o \in wv.objects : o.properties.comment_id = x.id}

\* the processed comments whose stored vector identity is the id of entry o
OwnersOf(o) ==
    {x \in store.comments : x.processed /\ x.weaviate_uuid = Some(o.uuid)}

\* C32: after any sequence of run_pending invocations, failed and retried ones
\* included, each comment has at most one entry in the vector index and the id
\* of every entry is the stored vector identity of exactly one processed
\* comment.
C32_IndexMatchesComments ==
    ClassificationQuiet =>
        /\ \A x \in store.comments : Cardinality(EntriesOf(x)) <= 1
        /\ \A o \in wv.objects : Cardinality(OwnersOf(o)) = 1

\* both run_pending invocations have selected comment x and have returned
BothSelected(x) ==
    \A t \in ClsTasks :
        /\ cl[t].pc = "done"
        /\ \E k \in 1..Len(cl[t].comments) : cl[t].comments[k].id = x.id

\* C33: when two run_pending invocations interleave at their await points and
\* both select the same unprocessed comment, the comment ends with exactly one
\* entry in the vector index, whose id is the vector identity stored on the
\* comment.
C33_InterleavedRunsKeepOneEntry ==
    \A x \in store.comments :
        BothSelected(x) =>
            /\ Cardinality(EntriesOf(x)) = 1
            /\ \A o \in EntriesOf(x) : x.weaviate_uuid = Some(o.uuid)

---------------------------------------------------------------------------
(* Properties of a fetch retried in its session *)

\* the rows session r is going to insert or has inserted
RowsHeld(r) ==
    [contents |-> run[r].sess.fl.contents \cup run[r].want.contents,
     comments |-> run[r].sess.fl.comments]

\* no item and no comment is held twice by session r
HeldOnce(r) ==
    /\ Cardinality(ItemKeys(RowsHeld(r).contents)) = Cardinality(RowsHeld(r).contents)
    /\ CommentKeys(RowsHeld(r).comments)
          \cap CommentKeys(SeqRange(run[r].sess.pending)) = {}
    /\ \A j, k \in 1..Len(run[r].sess.pending) :
          uq_platform_comment(run[r].sess.pending[j])
             = uq_platform_comment(run[r].sess.pending[k]) => j = k

\* C34: when a per-product fetch fails partway and is retried in the same
\* session, and the retry meets an item or a comment the failed attempt had
\* added, no second row is inserted for it and the commit at the end of the
\* run succeeds (no fetch using up its attempts, and no comment being
\* delivered twice otherwise).
C34_RetryAddsNoSecondRow ==
    \A r \in Tasks :
        (hist[r].met /\ ~hist[r].other) =>
            /\ HeldOnce(r)
            /\ (Ended(r) /\ hist[r].exhausted = {}) => run[r].pc = "done"

---------------------------------------------------------------------------
(* Properties of the batch of run_pending *)

\* the committed row of a comment the task has loaded
Committed(comment) == CHOOSE x \in store.comments : x.id = comment.id

\* C35: after a run_pending that returns without error every comment it
\* selected is processed, however many results the classifier and the
\* embedding provider have returned.
C35_ReturnedMeansAllProcessed ==
    \A t \in ClsTasks :
        cl[t].pc = "done" =>
            \A k \in 1..Len(cl[t].comments) : Committed(cl[t].comments[k]).processed

\* C36: any two distinct processed comments have distinct vector identities,
\* whether the vector store is configured or not.
C36_DistinctVectorIdentities ==
    \A x, y \in store.comments :
        (x.id # y.id /\ x.processed /\ y.processed)
            => x.weaviate_uuid # y.weaviate_uuid

---------------------------------------------------------------------------
(* Properties of the product of a comment *)

\* the ContentItem rows that own comment x
OwnerOf(x) ==
    {i \in store.contents : uq_platform_item(i) = <<x.platform, x.content>>}

\* C37: every Comment's product equals the product of the ContentItem that
\* owns it, after any sequence of ingestion runs over any product lists and
\* any growth of the comment trees between runs.
C37_CommentProductIsItemProduct ==
    \A x \in store.comments : \A i \in OwnerOf(x) : x.product = i.product

---------------------------------------------------------------------------
(* Properties of what classification leaves alone *)

\* the columns of a comment that ingestion has written
Ingested(x) ==
    [id |-> x.id, platform |-> x.platform, comment_id |-> x.comment_id,
     product |-> x.product, author |-> x.author, body |-> x.body,
     content |-> x.content]

\* C38: run_pending changes no field of a comment that is already processed,
\* leaves the ingested columns of every comment as they are, and creates and
\* deletes no relational row.
C38_ClassificationFrame ==
    [][/\ \A x \in store.comments : x.processed => x \in store'.comments
       /\ {Ingested(x) : x \in store.comments} = {Ingested(x) : x \in store'.comments}
       /\ Cardinality(store'.comments) = Cardinality(store.comments)
       /\ store'.contents = store.contents
       /\ store'.sources = store.sources]_vars

----------------------------------------------------------------------------
(* C39 *)

\* the task's step is the last failure of the embedding call
EmbedGivesUp(t) ==
    /\ cl[t].pc = "embed"
    /\ cl'[t].pc \notin {"embed", "write"}

\* every comment the task has loaded is stored as it was loaded
AsLoaded(t) ==
    \A k \in 1..Len(cl[t].comments) :
        Committed(cl[t].comments[k]) = cl[t].comments[k]

\* C39: when the embedding call has failed on its last attempt run_pending
\* raises, and from its selection to that point it has written nothing to the
\* vector index and left every stored comment (sentiment, confidence, aspects,
\* vector identity, processed flag) as it was when the call began.
C39_EmbedFailureChangesNothing ==
    [][\A t \in ClsTasks :
          /\ cl[t].pc \in {"classify", "embed"} =>
                 /\ store' = store
                 /\ wv.objects' = wv.objects
                 /\ AsLoaded(t)
          /\ EmbedGivesUp(t) =>
                 /\ cl'[t].pc = "failed"
                 /\ cl'[t].cause = "embed"
                 /\ cl[t].tries + 1 = Attempts]_vars

\* the embedding call has failed three times behind a classifier that answered
C39_Witness ==
    /\ cl[1].pc = "failed"
    /\ cl[1].cause = "embed"
    /\ cl[1].tries = max_tries - 1
    /\ cl[1].comments # <<>>
    /\ wv.objects # {}

----------------------------------------------------------------------------
(* C40 *)

\* a result of SentimentService.fallback
Tagged(sentiment) == "fallback" \in DOMAIN sentiment

\* the results of the batch of task t
Results(t) == cl[t].sentiments

\* the comments of the batch that the loop of run_pending has assigned
Assigned(t) == 1..Min(cl[t].k - 1, Batch(t))

====
